---- MODULE Spec2Model ----
(***************************************************************************)
(* Secret-Alerts: the change-detection and alert-batching core.            *)
(*                                                                         *)
(*   SpecDiff   TimeTravelTester._detect_changes, the key-based snapshot   *)
(*              diff, applied to bounded pairs of snapshots.               *)
(*   SpecCheck  CBOEMonitor.check, the hash-based check, run repeatedly.   *)
(*   SpecBatch  SmartAlertBatcher.queue_alert / _process_batch together    *)
(*              with EnhancedAlertManager.send_intelligent_alert.          *)
(*                                                                         *)
(* A pandas DataFrame is a sequence of rows plus its index (one label per  *)
(* row).  Strings are TLA+ strings; the missing value (None/NaN) is NULL.  *)
(***************************************************************************)
EXTENDS Integers, Sequences, FiniteSets, TLC

VARIABLES
    \* --- TimeTravelTester._detect_changes ---
    before_state,     \* rows of the previous snapshot
    after_state,      \* [rows, index] of the current snapshot
    new_alerts,       \* rows returned as new
    ended_alerts,     \* rows returned as ended
    diff_status       \* "idle" | "ok" | "IndexingError"

VARIABLES
    \* --- CBOEMonitor ---
    previous_hash,    \* md5 of the last downloaded data, "" before the first
    previous_df,      \* [present, rows]: copy of the last downloaded data
    check_results,    \* what the last check() returned
    prior_results     \* what the check() before it returned

VARIABLES
    \* --- SmartAlertBatcher, EnhancedAlertManager, health monitor ---
    now,              \* wall clock: seconds since local (Chicago) midnight
    ticks,            \* clock steps taken
    calls,            \* queue_alert calls made
    pending_alerts,   \* batch_key -> list of queued alerts
    batch_timers,     \* batch_key -> second at which its Timer fires
    health_monitor,   \* class of the health monitor handed to the batcher
    alert_ledger,     \* health monitor's ledger, newest first
    emissions,        \* calls of send_intelligent_alert, oldest first
    flushed           \* runs of _process_batch, oldest first

VARIABLES
    \* --- SpeedMonitor ---
    last_check_data,  \* [present, rows]: data of the last completed quick_check
    check_count,      \* quick_check calls
    error_count,      \* quick_check calls that ended in an error
    activity_log,     \* activity types, oldest first
    speed_result      \* what the last quick_check did

VARIABLES
    \* --- AlertIntelligenceEngine ---
    classify_call,    \* arguments of the calls of classify_priority and get_frequency_tier
    classify_result,  \* what they returned, "" before the call
    analyze_call,     \* arguments of analyze_batch
    analyze_results   \* [done, results]: what analyze_batch returned

diffVars == <<before_state, after_state, new_alerts, ended_alerts, diff_status>>
checkVars == <<previous_hash, previous_df, check_results, prior_results>>
batchVars == <<now, ticks, calls, pending_alerts, batch_timers, health_monitor,
               alert_ledger, emissions, flushed>>

speedVars == <<last_check_data, check_count, error_count, activity_log, speed_result>>

VARIABLES
    \* --- record keys ---
    key_call,         \* [first, second]: two rows of the feed
    key_result        \* [unique_keys, alert_ids]: their keys, <<>> before the call

keyVars == <<key_call, key_result>>

VARIABLES
    \* --- threads of the batcher: request threads in queue_alert, Timer
    \* --- threads in _process_batch
    list_objects,     \* the list objects made by pending_alerts, by identity
    queue_threads,    \* thread -> [pc, batch_key, list_ref, timer]
    timer_threads     \* Timer objects, by identity: [pc, batch_key, alerts_in_batch, started_by]

threadVars == <<list_objects, queue_threads, timer_threads>>

VARIABLES
    \* --- get_batch_window ---
    window_call,      \* America/Chicago time of day of the call, in seconds
    window_result     \* the window returned, 0 before the call

windowVars == <<window_call, window_result>>

VARIABLES
    \* --- CBOEMonitor.manual_check_active_positions ---
    manual_checks,    \* manual checks made
    manual_results    \* what the last manual check returned

manualVars == <<manual_checks, manual_results>>

VARIABLES
    \* --- ShortSaleAlertFormatter.format_changes_alert ---
    format_call,      \* [new_breakers_df, ended_breakers_df, today]
    format_result     \* [done, title, message_parts, started, ended]

formatVars == <<format_call, format_result>>

VARIABLES
    \* --- HealthMonitor (trust_dashboard.py), EnhancedHealthMonitor
    \* --- (services/health_monitor.py)
    monitor_class,     \* the class of the monitor
    health_ops,        \* calls made so far; the time a call reads
    health_recorded,   \* calls of record_check_attempt and record_alert_sent among them
    last_check_status, \* [timestamp, successful]
    transaction_log,   \* self.transaction_log, leftmost first
    monitor_ledger,    \* self.alert_ledger of this monitor, leftmost first
    health_lock,       \* the thread holding self.lock, 0 if none
    health_threads     \* thread -> [call, success, file_hash, pc, wrote_log, wrote_ledger, snapshot]

healthVars == <<monitor_class, health_ops, health_recorded, last_check_status,
                transaction_log, monitor_ledger, health_lock, health_threads>>

classifyVars == <<classify_call, classify_result>>
analyzeVars == <<analyze_call, analyze_results>>
engineVars == <<classifyVars, analyzeVars>>

vars == <<diffVars, checkVars, batchVars, speedVars, engineVars, keyVars, threadVars, windowVars, manualVars, formatVars, healthVars>>

----------------------------------------------------------------------------
(* Bounds of the model.                                                    *)

\* calls made on one health monitor one after the other
MaxHealthOps == 101

\* calls of record_check_attempt and record_alert_sent_enhanced among them
MaxRecorded == 1

\* threads calling one health monitor at the same time
MaxHealthThreads == 2

\* rows of each of the two frames handed to format_changes_alert
MaxFormatRows == 2

\* manual checks made between the automatic ones
MaxManualChecks == 2

\* total number of rows of the two snapshots handed to one diff
MaxRows == 5

\* number of rows of one downloaded CBOE file
MaxFeedRows == 2

\* largest frequency handed to the classifier
MaxFrequency == 33

\* number of rows of new_breakers_df handed to analyze_batch
MaxNewBreakers == 2

\* number of rows of full_df handed to analyze_batch
MaxFullRows == 2

\* number of queue_alert calls
MaxQueued == 2

\* number of request threads that call queue_alert concurrently
MaxQueueThreads == 2

\* number of clock steps
MaxTicks == 7

\* number of quick_check calls
MaxSpeedChecks == 2

----------------------------------------------------------------------------
(* Records of the feed.                                                    *)

NULL == "<NA>"

Symbols      == {"TSLT", "TSLZ"}
TriggerDates == {"2025-08-12"}
TriggerTimes == {"09:30:00"}
EndDates     == {NULL, "2025-08-12"}
EndTimes     == {NULL, "09:35:00"}

Rows == [Symbol : Symbols, TriggerDate : TriggerDates, TriggerTime : TriggerTimes,
         EndDate : EndDates, EndTime : EndTimes]

\* 'UniqueKey' column: Symbol + "_" + Trigger Date + "_" + Trigger Time
UniqueKey(r) == r.Symbol \o "_" \o r.TriggerDate \o "_" \o r.TriggerTime

isnull(v)  == v = NULL
notnull(v) == v /= NULL

Range(s) == {s[i] : i \in DOMAIN s}

\* how many rows of s carry the key k
RECURSIVE CountKey(_, _)
CountKey(s, k) ==
    IF s = <<>> THEN 0
    ELSE (IF UniqueKey(Head(s)) = k THEN 1 ELSE 0) + CountKey(Tail(s), k)

\* n copies of v
RECURSIVE Repeat(_, _)
Repeat(v, n) == IF n = 0 THEN <<>> ELSE <<v>> \o Repeat(v, n - 1)

----------------------------------------------------------------------------
(* TimeTravelTester._detect_changes                                        *)

\* after.merge(before[['UniqueKey']], on='UniqueKey', how='left',
\* indicator=True)['_merge'] == 'left_only': one entry per left row without
\* a match, one entry per matching right row otherwise, left order kept; the
\* result carries a fresh RangeIndex 0..Len-1.
RECURSIVE LeftOnlyMask(_, _)
LeftOnlyMask(left, right) ==
    IF left = <<>> THEN <<>>
    ELSE LET n == CountKey(right, UniqueKey(Head(left)))
         IN  (IF n = 0 THEN <<TRUE>> ELSE Repeat(FALSE, n))
             \o LeftOnlyMask(Tail(left), right)

\* df[mask] with a boolean Series mask indexed 0..Len(mask)-1: the mask is
\* reindexed by the labels of df; a label the mask does not have raises
\* IndexingError.
Unalignable(df, mask) ==
    \E i \in DOMAIN df.index : df.index[i] \notin 0..(Len(mask) - 1)

BoolIndexSeq(df, mask) ==
    LET Pick[i \in 0..Len(df.rows)] ==
            IF i = 0 THEN <<>>
            ELSE IF mask[df.index[i] + 1] THEN Append(Pick[i - 1], df.rows[i])
                 ELSE Pick[i - 1]
    IN  Pick[Len(df.rows)]

\* NewAlerts with the baseline run suppressed: an empty previous snapshot
\* yields no new record
NewAlertsNoBaseline(before, after) ==
    IF before = <<>> THEN <<>>
    ELSE BoolIndexSeq(after, LeftOnlyMask(after.rows, before))

\* lines 86-91
NewAlerts(before, after) ==
    IF before = <<>> THEN after.rows
    ELSE BoolIndexSeq(after, LeftOnlyMask(after.rows, before))

NewAlertsRaises(before, after) ==
    /\ before /= <<>>
    /\ Unalignable(after, LeftOnlyMask(after.rows, before))

\* lines 93-102
EndedAlerts(before, after) ==
    IF before = <<>> THEN <<>>
    ELSE LET IsOpen(r)   == isnull(r.EndTime)
             IsClosed(r) == notnull(r.EndTime)
             previously_open  == SelectSeq(before, IsOpen)
             currently_closed == SelectSeq(after.rows, IsClosed)
             ended_keys == {UniqueKey(r) : r \in Range(previously_open)} \cap
                           {UniqueKey(r) : r \in Range(currently_closed)}
             InEnded(r)  == UniqueKey(r) \in ended_keys
         IN  IF previously_open /= <<>> /\ currently_closed /= <<>>
             THEN SelectSeq(previously_open, InEnded)
             ELSE <<>>

\* the call: the exception of line 91 leaves nothing returned
DetectChanges ==
    /\ diff_status = "idle"
    /\ IF NewAlertsRaises(before_state, after_state)
       THEN /\ diff_status' = "IndexingError"
            /\ UNCHANGED <<new_alerts, ended_alerts>>
       ELSE /\ diff_status' = "ok"
            /\ new_alerts' = NewAlerts(before_state, after_state)
            /\ ended_alerts' = EndedAlerts(before_state, after_state)
    /\ UNCHANGED <<before_state, after_state>>

\* sequences of rows of length n
RowSeqs(n) == [1..n -> Rows]

\* the index of a frame of n rows cut out of a RangeIndex-ed frame with at
\* most one earlier row filtered away: labels 0..n with label s skipped
IndexSkipping(n, s) == [i \in 1..n |-> IF i - 1 < s THEN i - 1 ELSE i]

DiffIdle ==
    /\ before_state = <<>>
    /\ after_state = [rows |-> <<>>, index |-> <<>>]
    /\ new_alerts = <<>>
    /\ ended_alerts = <<>>
    /\ diff_status = "idle"


----------------------------------------------------------------------------
(* CBOEMonitor (monitors/cboe_monitor.py) with AlertManager                *)
(* (alerts/alert_manager.py).                                              *)

\* Config.keywords and CBOEMonitor.vip_tickers
keywords    == <<"BLOCK", "TRADE", "SWEEP", "UNUSUAL">>
vip_tickers == <<"TSLA", "HOOD", "UVXY", "RBLX", "QBTS", "TEM">>

\* rows a downloaded file is made of
FeedRows ==
    { [Symbol |-> "HOOD", SecurityName |-> "Robinhood Markets"],
      [Symbol |-> "TSLT", SecurityName |-> "T-Rex 2X Long Tesla"],
      [Symbol |-> "XYZ",  SecurityName |-> "Block Inc"] }

FeedFrames == UNION {[1..n -> FeedRows] : n \in 0..MaxFeedRows}

\* str.upper() on the letters the feed uses
UpperChar(c) ==
    CASE c = "a" -> "A" [] c = "b" -> "B" [] c = "c" -> "C" [] c = "d" -> "D"
      [] c = "e" -> "E" [] c = "f" -> "F" [] c = "g" -> "G" [] c = "h" -> "H"
      [] c = "i" -> "I" [] c = "j" -> "J" [] c = "k" -> "K" [] c = "l" -> "L"
      [] c = "m" -> "M" [] c = "n" -> "N" [] c = "o" -> "O" [] c = "p" -> "P"
      [] c = "q" -> "Q" [] c = "r" -> "R" [] c = "s" -> "S" [] c = "t" -> "T"
      [] c = "u" -> "U" [] c = "v" -> "V" [] c = "w" -> "W" [] c = "x" -> "X"
      [] c = "y" -> "Y" [] c = "z" -> "Z" [] OTHER -> c

RECURSIVE Upper(_)
Upper(s) ==
    IF Len(s) = 0 THEN ""
    ELSE UpperChar(SubSeq(s, 1, 1)) \o Upper(SubSeq(s, 2, Len(s)))

\* kw in text
Contains(text, kw) ==
    \E i \in 1..(Len(text) - Len(kw) + 1) : SubSeq(text, i, i + Len(kw) - 1) = kw

\* df.to_string(): the header, then one line per row
RECURSIVE RowsToString(_)
RowsToString(rows) ==
    IF rows = <<>> THEN ""
    ELSE "\n" \o Head(rows).Symbol \o "  " \o Head(rows).SecurityName
         \o RowsToString(Tail(rows))

to_string(df) ==
    IF df = <<>> THEN "Empty DataFrame\nColumns: [Symbol, Security Name]\nIndex: []"
    ELSE "Symbol  Security Name" \o RowsToString(df)

\* hashlib.md5(...).hexdigest(): a digest of the text, never the empty string
md5(text) == "md5:" \o text

\* the entries of the list ws that occur in the upper-cased text, in order
RECURSIVE Found(_, _)
Found(ws, content) ==
    IF ws = <<>> THEN <<>>
    ELSE (IF Contains(content, Upper(Head(ws))) THEN <<Head(ws)>> ELSE <<>>)
         \o Found(Tail(ws), content)

\* the entries of add that are not in base, appended to base in order
RECURSIVE AppendMissing(_, _)
AppendMissing(base, add) ==
    IF add = <<>> THEN base
    ELSE AppendMissing(IF Head(add) \in Range(base) THEN base
                       ELSE Append(base, Head(add)), Tail(add))

\* find_keyword_matches: [matches, vip_matches]
find_keyword_matches(df) ==
    IF df = <<>> THEN [matches |-> <<>>, vip_matches |-> <<>>]
    ELSE LET searchable_content == Upper(to_string(df))
             vip == Found(vip_tickers, searchable_content)
         IN  [matches     |-> AppendMissing(Found(keywords, searchable_content), vip),
              vip_matches |-> vip]

\* analyze_circuit_breaker_data: the keys of the dict it returns
AnalysisKeys(df) ==
    IF df = <<>> THEN {}
    ELSE {"total_rows", "columns", "active_breakers", "active_breakers_list"}

\* AlertManager.process_circuit_breaker_matches: [ok, sends], the value
\* returned and the number of Discord messages posted; discord_ok is the
\* outcome of DiscordClient.send_alert if it is reached
process_circuit_breaker_matches(additional_data, discord_ok) ==
    IF "manual_check" \in additional_data
    THEN [ok |-> discord_ok, sends |-> 1]
    ELSE IF "started" \in additional_data \/ "ended" \in additional_data
         THEN [ok |-> discord_ok, sends |-> 1]
         ELSE [ok |-> TRUE, sends |-> 0]

\* the pure parts of check(), tabulated once per downloadable file
CheckTable ==
    {[df |-> df, hash |-> md5(to_string(df)), m |-> find_keyword_matches(df)] :
        df \in FeedFrames}

NoResults ==
    [ran |-> FALSE, error |-> FALSE, has_changes |-> FALSE, is_initial |-> FALSE,
     keywords_found |-> <<>>, vip_keywords_found |-> <<>>, alert_sent |-> FALSE,
     submitted |-> <<>>, delivered |-> 0]

\* a decision that looks at the matches only, whether or not the data changed
ShouldAlertAlways(has_changes, is_initial, m) ==
    m.matches /= <<>> \/ m.vip_matches /= <<>>

\* the decision of lines 178-180
ShouldAlert(has_changes, is_initial, m) ==
    (has_changes \/ is_initial) /\ (m.matches /= <<>> \/ m.vip_matches /= <<>>)

\* a failed download that also forgets the stored snapshot
CheckDownloadFailedForgets ==
    /\ check_results' = [NoResults EXCEPT !.ran = TRUE, !.error = TRUE]
    /\ prior_results' = check_results
    /\ previous_hash' = ""
    /\ previous_df' = [present |-> FALSE, rows |-> <<>>]

\* CBOEMonitor.check with a failed download (lines 146-151)
CheckDownloadFailed ==
    /\ check_results' = [NoResults EXCEPT !.ran = TRUE, !.error = TRUE]
    /\ prior_results' = check_results
    /\ UNCHANGED <<previous_hash, previous_df>>

\* CBOEMonitor.check with df downloaded (lines 153-207)
CheckDownloaded(t, discord_ok) ==
    LET current_hash == t.hash
        has_changes  == current_hash /= previous_hash
        is_initial   == previous_hash = ""
        m            == t.m
        alerting     == ShouldAlert(has_changes, is_initial, m)
        sent         == process_circuit_breaker_matches(AnalysisKeys(t.df), discord_ok)
    IN  /\ check_results' =
              [ran |-> TRUE, error |-> FALSE,
               has_changes |-> has_changes, is_initial |-> is_initial,
               keywords_found |-> m.matches, vip_keywords_found |-> m.vip_matches,
               alert_sent |-> IF alerting THEN sent.ok ELSE FALSE,
               submitted  |-> IF alerting THEN m.matches ELSE <<>>,
               delivered  |-> IF alerting THEN sent.sends ELSE 0]
        /\ prior_results' = check_results
        /\ previous_hash' = current_hash
        /\ previous_df' = [present |-> TRUE, rows |-> t.df]

CheckIdle ==
    /\ previous_hash = ""
    /\ previous_df = [present |-> FALSE, rows |-> <<>>]
    /\ check_results = NoResults
    /\ prior_results = NoResults


----------------------------------------------------------------------------
(* CBOEMonitor.manual_check_active_positions (monitors/cboe_monitor.py).   *)

\* get_active_circuit_breakers: the rows with a trigger date and no end
\* date, in file order.  The rows of the check model carry the two columns
\* the keyword search reads; active is the set of positions whose trigger
\* and end columns make the row an active one.
get_active_circuit_breakers(df, active) ==
    LET IsActive[i \in 0..Len(df)] ==
            IF i = 0 THEN <<>>
            ELSE IF i \in active
                 THEN Append(IsActive[i - 1],
                             [symbol |-> df[i].Symbol, security_name |-> df[i].SecurityName])
                 ELSE IsActive[i - 1]
    IN  IsActive[Len(df)]

\* the keywords found in the symbol or the name of an active breaker
RECURSIVE ActiveMatches(_)
ActiveMatches(active_breakers) ==
    IF active_breakers = <<>> THEN <<>>
    ELSE LET breaker == active_breakers[Len(active_breakers)]
             Hit(keyword) == \/ Contains(Upper(breaker.symbol), Upper(keyword))
                             \/ Contains(Upper(breaker.security_name), Upper(keyword))
         IN  AppendMissing(ActiveMatches(SubSeq(active_breakers, 1, Len(active_breakers) - 1)),
                           SelectSeq(keywords, Hit))

\* the symbols of the active breakers that are VIP tickers
RECURSIVE ActiveVipMatches(_)
ActiveVipMatches(active_breakers) ==
    IF active_breakers = <<>> THEN <<>>
    ELSE LET symbol == Upper(active_breakers[Len(active_breakers)].symbol)
         IN  AppendMissing(ActiveVipMatches(SubSeq(active_breakers, 1, Len(active_breakers) - 1)),
                           IF \E i \in DOMAIN vip_tickers : Upper(vip_tickers[i]) = symbol
                           THEN <<symbol>> ELSE <<>>)

NoManualResults ==
    [ran |-> FALSE, error |-> FALSE, active_positions |-> 0,
     active_vip_positions |-> 0, alert_sent |-> FALSE, delivered |-> 0]

\* what manual_check_active_positions returns for a downloaded file
manual_check_results(df, active, discord_ok) ==
    LET active_breakers    == get_active_circuit_breakers(df, active)
        active_vip_matches == ActiveVipMatches(active_breakers)
        manual_analysis    == AnalysisKeys(df) \cup {"manual_check", "forced_alert"}
        sent == process_circuit_breaker_matches(manual_analysis, discord_ok)
    IN  IF active_breakers /= <<>>
        THEN [ran |-> TRUE, error |-> FALSE,
              active_positions |-> Len(active_breakers),
              active_vip_positions |-> Len(active_vip_matches),
              alert_sent |-> sent.ok, delivered |-> sent.sends]
        ELSE [ran |-> TRUE, error |-> FALSE, active_positions |-> 0,
              active_vip_positions |-> 0, alert_sent |-> FALSE, delivered |-> 0]

\* manual_check_active_positions with download_csv returning None (213-218)
ManualCheckDownloadFailed ==
    /\ manual_checks < MaxManualChecks
    /\ manual_checks' = manual_checks + 1
    /\ manual_results' = [NoManualResults EXCEPT !.ran = TRUE, !.error = TRUE]
    /\ UNCHANGED checkVars

\* a manual check that stores the downloaded file as check() does
ManualCheckStoring(t, active, discord_ok) ==
    /\ manual_checks < MaxManualChecks
    /\ manual_checks' = manual_checks + 1
    /\ manual_results' = manual_check_results(t.df, active, discord_ok)
    /\ previous_hash' = t.hash
    /\ previous_df' = [present |-> TRUE, rows |-> t.df]
    /\ UNCHANGED <<check_results, prior_results>>

\* manual_check_active_positions with df downloaded (220-275)
ManualCheck(t, active, discord_ok) ==
    /\ manual_checks < MaxManualChecks
    /\ manual_checks' = manual_checks + 1
    /\ manual_results' = manual_check_results(t.df, active, discord_ok)
    /\ UNCHANGED <<previous_hash, previous_df, check_results, prior_results>>

ManualIdle ==
    /\ manual_checks = 0
    /\ manual_results = NoManualResults


----------------------------------------------------------------------------
(* SmartAlertBatcher (services/alert_batcher.py) with                      *)
(* EnhancedAlertManager.send_intelligent_alert                             *)
(* (alerts/enhanced_alert_manager.py) and the health monitors.             *)

\* datetime.time(h, m) as seconds since midnight
dt_time(h, m) == h * 3600 + m * 60

\* datetime.now().timestamp(): seconds since the epoch; local midnight of
\* 2025-08-12 in Chicago is 05:00:00 UTC of day 20312
EpochOfMidnight == 20312 * 86400 + 5 * 3600
timestamp(t) == EpochOfMidnight + t

\* records the batcher is handed
tslt_open   == [Symbol |-> "TSLT", TriggerDate |-> "2025-08-12",
                TriggerTime |-> "09:30:00", EndDate |-> NULL, EndTime |-> NULL]
tslt_closed == [tslt_open EXCEPT !.EndDate = "2025-08-12", !.EndTime = "09:35:00"]
tsla_open   == [tslt_open EXCEPT !.Symbol = "TSLA"]
tslz_open   == [tslt_open EXCEPT !.Symbol = "TSLZ"]

\* the (new_breakers_df, ended_breakers_df) pairs run_check_endpoint queues:
\* at least one of the two is not empty
Changes ==
    { [new_breakers |-> <<tslt_open>>,            ended_breakers |-> <<>>],
      [new_breakers |-> <<>>,                     ended_breakers |-> <<tslt_closed>>],
      [new_breakers |-> <<tsla_open, tslt_open>>, ended_breakers |-> <<tslt_closed>>],
      [new_breakers |-> <<tslt_closed>>,          ended_breakers |-> <<>>],
      [new_breakers |-> <<tslz_open>>,            ended_breakers |-> <<>>] }

\* VIP_SYMBOLS of main.py, the list the alert manager is configured with
VIP_SYMBOLS == <<"TSLA", "AAPL", "GOOG", "TSLZ", "ETQ", "NVDA", "MSTR", "GME", "AMC">>

\* get_batch_window with the market-hours test ahead of the rush-hour test
get_batch_window_market_first(t) ==
    LET rush_start      == dt_time(9, 20)
        rush_end        == dt_time(10, 0)
        market_start    == dt_time(9, 30)
        market_end      == dt_time(16, 0)
        premarket_start == dt_time(8, 0)
    IN  IF market_start <= t /\ t <= market_end THEN 45
        ELSE IF rush_start <= t /\ t <= rush_end THEN 90
        ELSE IF premarket_start <= t /\ t < rush_start THEN 30
        ELSE 15

\* get_batch_window at local time t
get_batch_window(t) ==
    LET rush_start      == dt_time(9, 20)
        rush_end        == dt_time(10, 0)
        market_start    == dt_time(9, 30)
        market_end      == dt_time(16, 0)
        premarket_start == dt_time(8, 0)
    IN  IF rush_start <= t /\ t <= rush_end THEN 90
        ELSE IF market_start <= t /\ t <= market_end THEN 45
        ELSE IF premarket_start <= t /\ t < rush_start THEN 30
        ELSE 15

\* the list of should_bypass_batching
vip_symbols == <<"TSLA", "NVDA", "AAPL", "MSTR", "GME", "AMC">>

\* should_bypass_batching at local time t
should_bypass_batching(new_breakers_df, t) ==
    LET after_hours_start == dt_time(20, 0)
        after_hours_end   == dt_time(8, 0)
    IN  IF new_breakers_df = <<>> THEN FALSE
        ELSE /\ (t >= after_hours_start \/ t < after_hours_end)
             /\ \E i \in DOMAIN new_breakers_df :
                    new_breakers_df[i].Symbol \in Range(vip_symbols)

\* int(current_time.timestamp() // batch_window) * batch_window
batch_key_at(t) == (timestamp(t) \div get_batch_window(t)) * get_batch_window(t)

\* str.replace(old, new) for a one-character old
RECURSIVE replace(_, _, _)
replace(s, old, new) ==
    IF Len(s) = 0 THEN ""
    ELSE (IF SubSeq(s, 1, 1) = old THEN new ELSE SubSeq(s, 1, 1))
         \o replace(SubSeq(s, 2, Len(s)), old, new)

\* the alert ids of _record_intelligent_alerts
new_alert_id(r) ==
    replace(replace(r.Symbol \o "-" \o r.TriggerDate \o "-" \o r.TriggerTime,
                    " ", "_"), ":", "")
ended_alert_id(r) ==
    replace(replace(r.Symbol \o "-" \o r.TriggerDate \o "-" \o r.TriggerTime \o "-END",
                    " ", "_"), ":", "")

\* deque(maxlen=max_ledger_size).appendleft
max_ledger_size == 200
appendleft(ledger, e) ==
    LET l == <<e>> \o ledger
    IN  IF Len(l) > max_ledger_size THEN SubSeq(l, 1, max_ledger_size) ELSE l

RECURSIVE appendleft_all(_, _)
appendleft_all(ledger, es) ==
    IF es = <<>> THEN ledger
    ELSE appendleft_all(appendleft(ledger, Head(es)), Tail(es))

\* the classes a health monitor is an instance of
HealthMonitors == {"EnhancedHealthMonitor", "HealthMonitor"}

\* _record_intelligent_alerts: [raises, ledger].  EnhancedHealthMonitor has
\* record_alert_sent_enhanced; trust_dashboard.HealthMonitor has not, and its
\* record_alert_sent takes no alert_id: the first record call raises TypeError
record_intelligent_alerts(new_breakers_df, ended_breakers_df, hm, ledger) ==
    LET NewEntry(i)   == [alert_id   |-> new_alert_id(new_breakers_df[i]),
                          alert_type |-> "NEW_BREAKER"]
        EndedEntry(i) == [alert_id   |-> ended_alert_id(ended_breakers_df[i]),
                          alert_type |-> "ENDED_BREAKER"]
        entries == [i \in 1..Len(new_breakers_df) |-> NewEntry(i)]
                   \o [i \in 1..Len(ended_breakers_df) |-> EndedEntry(i)]
    IN  IF entries = <<>> THEN [raises |-> FALSE, ledger |-> ledger]
        ELSE IF hm = "EnhancedHealthMonitor"
             THEN [raises |-> FALSE, ledger |-> appendleft_all(ledger, entries)]
             ELSE [raises |-> TRUE, ledger |-> ledger]

\* send_intelligent_alert recording the alerts whatever the send returned
send_intelligent_alert_always_records(new_breakers_df, ended_breakers_df, hm, ledger, ok1, ok2) ==
    LET rec == record_intelligent_alerts(new_breakers_df, ended_breakers_df, hm, ledger)
    IN  IF rec.raises
        THEN [success |-> ok1 /\ ok2, sends |-> IF ok1 THEN 2 ELSE 1, ledger |-> rec.ledger]
        ELSE [success |-> ok1, sends |-> 1, ledger |-> rec.ledger]

\* send_intelligent_alert: [success, sends, ledger]; sends counts the calls of
\* send_formatted_alert, ok1 and ok2 are what DiscordClient.send_alert
\* returns to the first and to the fallback call
send_intelligent_alert(new_breakers_df, ended_breakers_df, hm, ledger, ok1, ok2) ==
    LET rec == record_intelligent_alerts(new_breakers_df, ended_breakers_df, hm, ledger)
    IN  IF ~ok1 THEN [success |-> FALSE, sends |-> 1, ledger |-> ledger]
        ELSE IF rec.raises
             THEN [success |-> ok2, sends |-> 2, ledger |-> rec.ledger]
             ELSE [success |-> TRUE, sends |-> 1, ledger |-> rec.ledger]

\* the columns drop_duplicates is given as subset
SubsetKey(r) == <<r.Symbol, r.TriggerDate, r.TriggerTime>>

\* df.drop_duplicates(subset=[...]): the first row of every key, in order
drop_duplicates(df) ==
    LET Keep[i \in 0..Len(df)] ==
            IF i = 0 THEN <<>>
            ELSE IF \E j \in 1..(i - 1) : SubsetKey(df[j]) = SubsetKey(df[i])
                 THEN Keep[i - 1]
                 ELSE Append(Keep[i - 1], df[i])
    IN  Keep[Len(df)]

\* pd.concat(frames, ignore_index=True) of a non-empty list of frames
RECURSIVE concat(_)
concat(frames) ==
    IF frames = <<>> THEN <<>> ELSE Head(frames) \o concat(Tail(frames))

\* the frames of one column of the queued alerts that are not empty
NonEmptyNew(alerts) ==
    LET Has(a) == a.new_breakers /= <<>>
    IN  [i \in DOMAIN SelectSeq(alerts, Has) |-> SelectSeq(alerts, Has)[i].new_breakers]
NonEmptyEnded(alerts) ==
    LET Has(a) == a.ended_breakers /= <<>>
    IN  [i \in DOMAIN SelectSeq(alerts, Has) |-> SelectSeq(alerts, Has)[i].ended_breakers]

\* dict without the key k
Without(d, k) == [x \in (DOMAIN d) \ {k} |-> d[x]]

\* queue_alert(new_breakers_df, ended_breakers_df, full_df)
QueueAlert(c, ok1, ok2) ==
    /\ calls < MaxQueued
    /\ calls' = calls + 1
    /\ LET full_df == calls + 1
       IN  IF should_bypass_batching(c.new_breakers, now)
           THEN LET r == send_intelligent_alert(c.new_breakers, c.ended_breakers,
                                                health_monitor, alert_ledger, ok1, ok2)
                IN  /\ emissions' = Append(emissions,
                            [source |-> "bypass", flush |-> 0,
                             new_breakers |-> c.new_breakers,
                             ended_breakers |-> c.ended_breakers,
                             full_df |-> full_df,
                             sends |-> r.sends, success |-> r.success])
                    /\ alert_ledger' = r.ledger
                    /\ UNCHANGED <<pending_alerts, batch_timers>>
           ELSE LET batch_window == get_batch_window(now)
                    batch_key    == batch_key_at(now)
                    alert == [new_breakers |-> c.new_breakers,
                              ended_breakers |-> c.ended_breakers,
                              full_df |-> full_df, timestamp |-> now]
                IN  /\ pending_alerts' =
                          IF batch_key \in DOMAIN pending_alerts
                          THEN [pending_alerts EXCEPT ![batch_key] = Append(@, alert)]
                          ELSE pending_alerts @@ (batch_key :> <<alert>>)
                    /\ batch_timers' =
                          IF batch_key \in DOMAIN batch_timers THEN batch_timers
                          ELSE batch_timers @@ (batch_key :> now + batch_window)
                    /\ UNCHANGED <<emissions, alert_ledger>>
    /\ UNCHANGED <<now, ticks, health_monitor, flushed>>

\* _process_batch(batch_key), run by the bucket's Timer when it fires
ProcessBatch(batch_key, ok1, ok2) ==
    /\ batch_key \in DOMAIN batch_timers
    /\ now >= batch_timers[batch_key]
    /\ IF batch_key \notin DOMAIN pending_alerts
       THEN UNCHANGED <<pending_alerts, batch_timers, emissions, alert_ledger, flushed>>
       ELSE LET alerts_in_batch == pending_alerts[batch_key]
                news   == NonEmptyNew(alerts_in_batch)
                endeds == NonEmptyEnded(alerts_in_batch)
            IN  /\ pending_alerts' = Without(pending_alerts, batch_key)
                /\ batch_timers' = Without(batch_timers, batch_key)
                /\ IF alerts_in_batch = <<>>
                   THEN /\ flushed' = Append(flushed,
                                [batch_key |-> batch_key, alerts |-> alerts_in_batch,
                                 error |-> "", calls |-> 0])
                        /\ UNCHANGED <<emissions, alert_ledger>>
                   ELSE IF news = <<>> \/ endeds = <<>>
                   THEN \* pd.concat([]) raises ValueError: the Timer thread ends
                        /\ flushed' = Append(flushed,
                                [batch_key |-> batch_key, alerts |-> alerts_in_batch,
                                 error |-> "ValueError", calls |-> 0])
                        /\ UNCHANGED <<emissions, alert_ledger>>
                   ELSE LET all_new_breakers   == drop_duplicates(concat(news))
                            all_ended_breakers == drop_duplicates(concat(endeds))
                            latest_full_df ==
                                alerts_in_batch[Len(alerts_in_batch)].full_df
                            r == send_intelligent_alert(all_new_breakers,
                                     all_ended_breakers, health_monitor,
                                     alert_ledger, ok1, ok2)
                        IN  /\ emissions' = Append(emissions,
                                    [source |-> "batch", flush |-> Len(flushed) + 1,
                                     new_breakers |-> all_new_breakers,
                                     ended_breakers |-> all_ended_breakers,
                                     full_df |-> latest_full_df,
                                     sends |-> r.sends, success |-> r.success])
                            /\ alert_ledger' = r.ledger
                            /\ flushed' = Append(flushed,
                                    [batch_key |-> batch_key, alerts |-> alerts_in_batch,
                                     error |-> "", calls |-> 1])
    /\ UNCHANGED <<now, ticks, calls, health_monitor>>

\* the clock advances in steps of the shortest batch window, the one in
\* force at midnight; every other window is a multiple of it
TickStep == get_batch_window(dt_time(0, 0))

\* time passes; a Timer that is due runs before the clock moves on
Tick ==
    /\ ticks < MaxTicks
    /\ \A k \in DOMAIN batch_timers : now < batch_timers[k]
    /\ now' = now + TickStep
    /\ ticks' = ticks + 1
    /\ UNCHANGED <<calls, pending_alerts, batch_timers, health_monitor,
                   alert_ledger, emissions, flushed>>

\* the moments a run starts at: pre-market just before the rush hour, the
\* rush hour just before its end, the evening just before 20:00
StartTimes == {dt_time(9, 19) + 30, dt_time(9, 59) + 30, dt_time(19, 59) + 30}

\* every batch key the clock can produce
BatchKeys == {batch_key_at(s + n * TickStep) : s \in StartTimes, n \in 0..MaxTicks}

BatchIdle ==
    /\ now = 0
    /\ ticks = 0
    /\ calls = 0
    /\ pending_alerts = <<>>
    /\ batch_timers = <<>>
    /\ health_monitor = "EnhancedHealthMonitor"
    /\ alert_ledger = <<>>
    /\ emissions = <<>>
    /\ flushed = <<>>

----------------------------------------------------------------------------
(* SpeedMonitor (services/speed_monitor.py).                               *)

\* the frames _fetch_fast can return
SpeedRows == {[Symbol |-> "TSLT"], [Symbol |-> "HOOD"]}
SpeedFrames == UNION {[1..n -> SpeedRows] : n \in 0..MaxFeedRows}

\* deque(maxlen=50).append
activity_maxlen == 50
log_activity(log, activity_type) ==
    LET l == Append(log, activity_type)
    IN  IF Len(l) > activity_maxlen THEN SubSeq(l, 2, Len(l)) ELSE l

\* the methods the class SpeedMonitor defines; _send_speed_alert is not one
\* of them: its body follows send_health_report without a def line
SpeedMonitorMethods ==
    {"__init__", "quick_check", "_fetch_fast", "_log_activity", "get_status",
     "send_health_report"}

NoSpeedResult ==
    [ran |-> FALSE, fetched |-> FALSE, current |-> <<>>, returned |-> FALSE,
     alerts_sent |-> 0]

\* quick_check when _fetch_fast returns None
QuickCheckFetchFailed ==
    /\ check_count < MaxSpeedChecks
    /\ check_count' = check_count + 1
    /\ error_count' = error_count + 1
    /\ activity_log' = log_activity(activity_log, "ERROR")
    /\ speed_result' = [NoSpeedResult EXCEPT !.ran = TRUE]
    /\ UNCHANGED last_check_data

\* quick_check when _fetch_fast returns current_data
QuickCheckFetched(current_data) ==
    /\ check_count < MaxSpeedChecks
    /\ check_count' = check_count + 1
    /\ IF /\ last_check_data.present
          /\ Len(current_data) > Len(last_check_data.rows)
          /\ "_send_speed_alert" \notin SpeedMonitorMethods
       THEN \* self._send_speed_alert raises AttributeError, caught at line 70
            /\ error_count' = error_count + 1
            /\ activity_log' = log_activity(activity_log, "ERROR")
            /\ speed_result' = [ran |-> TRUE, fetched |-> TRUE,
                                current |-> current_data, returned |-> FALSE,
                                alerts_sent |-> 0]
            /\ UNCHANGED last_check_data
       ELSE /\ activity_log' =
                  log_activity(
                      log_activity(activity_log,
                          IF ~last_check_data.present THEN "INIT"
                          ELSE IF Len(current_data) > Len(last_check_data.rows)
                               THEN "ALERT" ELSE "CHECK"),
                      "PERF")
            /\ last_check_data' = [present |-> TRUE, rows |-> current_data]
            /\ speed_result' = [ran |-> TRUE, fetched |-> TRUE,
                                current |-> current_data, returned |-> TRUE,
                                alerts_sent |->
                                    IF /\ last_check_data.present
                                       /\ Len(current_data) > Len(last_check_data.rows)
                                    THEN 1 ELSE 0]
            /\ UNCHANGED error_count

SpeedIdle ==
    /\ last_check_data = [present |-> FALSE, rows |-> <<>>]
    /\ check_count = 0
    /\ error_count = 0
    /\ activity_log = <<>>
    /\ speed_result = NoSpeedResult


----------------------------------------------------------------------------
(* AlertIntelligenceEngine (src/alerts/alert_intelligence.py).             *)

\* the tiers: the source returns emoji strings, named here by its comments
SUPER_HOT     == "SUPER_HOT"
VERY_HOT      == "VERY_HOT"
HOT           == "HOT"
ACTIVE        == "ACTIVE"
STANDARD_TIER == "STANDARD_TIER"

\* FrequencyAnalyzer.get_frequency_tier with strict comparisons
get_frequency_tier_strict(frequency) ==
    IF frequency > 30 THEN SUPER_HOT
    ELSE IF frequency > 20 THEN VERY_HOT
    ELSE IF frequency > 15 THEN HOT
    ELSE IF frequency > 10 THEN ACTIVE
    ELSE STANDARD_TIER

\* FrequencyAnalyzer.get_frequency_tier
get_frequency_tier(frequency) ==
    IF frequency >= 30 THEN SUPER_HOT
    ELSE IF frequency >= 20 THEN VERY_HOT
    ELSE IF frequency >= 15 THEN HOT
    ELSE IF frequency >= 10 THEN ACTIVE
    ELSE STANDARD_TIER

\* PriorityClassifier.__init__: the list handed over by main.py, upper-cased
classifier_vip_symbols == [i \in DOMAIN VIP_SYMBOLS |-> Upper(VIP_SYMBOLS[i])]

\* a classifier that looks at the frequency before the VIP list
classify_priority_frequency_first(symbol, frequency, is_double_mint) ==
    LET symbol_upper == Upper(symbol)
    IN  IF frequency >= 15 THEN "HIGH"
        ELSE IF symbol_upper \in Range(classifier_vip_symbols) THEN "VIP"
        ELSE IF is_double_mint /\ frequency >= 5 THEN "HIGH"
        ELSE "STANDARD"

\* a classifier whose double-mint rule applies to low frequencies only
classify_priority_low_only(symbol, frequency, is_double_mint) ==
    LET symbol_upper == Upper(symbol)
    IN  IF symbol_upper \in Range(classifier_vip_symbols) THEN "VIP"
        ELSE IF frequency >= 15 THEN "HIGH"
        ELSE IF is_double_mint /\ frequency <= 5 THEN "HIGH"
        ELSE "STANDARD"

\* PriorityClassifier.classify_priority
classify_priority(symbol, frequency, is_double_mint) ==
    LET symbol_upper == Upper(symbol)
    IN  IF symbol_upper \in Range(classifier_vip_symbols) THEN "VIP"
        ELSE IF frequency >= 15 THEN "HIGH"
        ELSE IF is_double_mint /\ frequency >= 5 THEN "HIGH"
        ELSE "STANDARD"

\* symbols handed to the classifier: on the VIP list, on it but for the case,
\* and not on it
ClassifySymbols == {"TSLZ", "tslz", "TSLT", "HOOD"}

ClassifyCalls ==
    [symbol : ClassifySymbols, frequency : 1..MaxFrequency,
     other_frequency : 1..MaxFrequency, is_double_mint : BOOLEAN]

NoClassification ==
    [priority |-> "", other_priority |-> "", frequency_tier |-> "",
     underlying_asset |-> ""]

\* classify_priority called for classify_call, at each of its two frequencies
ClassifyPriority ==
    /\ classify_result.priority = ""
    /\ classify_result' =
          [classify_result EXCEPT
              !.priority = classify_priority(classify_call.symbol,
                               classify_call.frequency, classify_call.is_double_mint),
              !.other_priority = classify_priority(classify_call.symbol,
                               classify_call.other_frequency, classify_call.is_double_mint)]
    /\ UNCHANGED classify_call

\* get_frequency_tier called for classify_call
GetFrequencyTier ==
    /\ classify_result.frequency_tier = ""
    /\ classify_result' =
          [classify_result EXCEPT
              !.frequency_tier = get_frequency_tier(classify_call.frequency)]
    /\ UNCHANGED classify_call

\* the rows handed to the engine: 'Symbol' and 'Trigger Date'; an empty
\* 'Symbol' cell of the feed is read as NaN, and the feed's casing of a
\* symbol may vary
AnalyzeSymbols == {"TSLT", "TSLZ", "tslt", NULL}
AnalyzeDates   == {"2025-08-12", "2025-08-13"}
AnalyzeRows    == [Symbol : AnalyzeSymbols, TriggerDate : AnalyzeDates]

\* str.startswith and str.endswith
startswith(s, prefix) == Len(s) >= Len(prefix) /\ SubSeq(s, 1, Len(prefix)) = prefix
endswith(s, suffix) ==
    Len(s) >= Len(suffix) /\ SubSeq(s, Len(s) - Len(suffix) + 1, Len(s)) = suffix

\* a str method called on NaN, a float, raises AttributeError
AttributeError(symbol) == symbol = NULL

\* FrequencyAnalyzer.get_symbol_frequency; NaN equals nothing, itself included
get_symbol_frequency(symbol, full_df) ==
    IF ~full_df.present \/ full_df.rows = <<>> THEN 1
    ELSE LET frequency ==
                 Len(SelectSeq(full_df.rows,
                         LAMBDA r : r.Symbol = symbol /\ symbol /= NULL))
         IN  IF frequency > 1 THEN frequency ELSE 1

\* DoubleMintDetector.extract_underlying_asset of a string
extract_underlying_asset(symbol) ==
    IF startswith(symbol, "TSL") THEN "TSLA"
    ELSE IF startswith(symbol, "NVD") THEN "NVDA"
    ELSE IF startswith(symbol, "MST") THEN "MSTR"
    ELSE IF startswith(symbol, "ETU") \/ startswith(symbol, "ETQ")
              \/ startswith(symbol, "ETHU") THEN "ETH"
    ELSE IF startswith(symbol, "BTC") \/ startswith(symbol, "BITX") THEN "BTC"
    ELSE IF startswith(symbol, "ROB") THEN "HOOD"
    ELSE IF startswith(symbol, "QBT") \/ startswith(symbol, "QUB") THEN "QUANTUM"
    ELSE IF startswith(symbol, "ARM") THEN "ARM"
    ELSE IF startswith(symbol, "RBL") THEN "RBLX"
    ELSE IF startswith(symbol, "PLT") THEN "PLTR"
    ELSE IF startswith(symbol, "DJT") THEN "DJT"
    ELSE IF startswith(symbol, "UVI") \/ startswith(symbol, "SVIX") THEN "VIX"
    ELSE IF startswith(symbol, "CWV") \/ startswith(symbol, "CRWU") THEN "CRWV"
    ELSE IF startswith(symbol, "SMU") \/ startswith(symbol, "SMUP") THEN "SMR"
    ELSE IF Len(symbol) >= 4
         THEN LET base == SubSeq(symbol, 1, Len(symbol) - 1)
              IN  IF endswith(base, "P") \/ endswith(base, "U")
                       \/ endswith(base, "T") \/ endswith(base, "Z")
                  THEN SubSeq(base, 1, Len(base) - 1)
                  ELSE base
    ELSE symbol

\* a detector that does not look at the trigger date
detect_double_mint_any_date(symbol, trigger_date, full_df) ==
    IF ~full_df.present \/ full_df.rows = <<>>
    THEN [raised |-> FALSE, is_double_mint |-> FALSE, related_symbols |-> <<>>]
    ELSE IF AttributeError(symbol)
              \/ \E i \in DOMAIN full_df.rows : AttributeError(full_df.rows[i].Symbol)
         THEN [raised |-> TRUE, is_double_mint |-> FALSE, related_symbols |-> <<>>]
         ELSE LET underlying == extract_underlying_asset(symbol)
                  related == SelectSeq(full_df.rows,
                                LAMBDA r : /\ extract_underlying_asset(r.Symbol) = underlying
                                           /\ r.Symbol /= symbol)
                  related_symbols == [i \in DOMAIN related |-> related[i].Symbol]
              IN  [raised |-> FALSE,
                   is_double_mint |-> Len(related_symbols) > 0,
                   related_symbols |-> related_symbols]

\* DoubleMintDetector.detect_double_mint: [raised, is_double_mint, related_symbols]
detect_double_mint(symbol, trigger_date, full_df) ==
    IF ~full_df.present \/ full_df.rows = <<>>
    THEN [raised |-> FALSE, is_double_mint |-> FALSE, related_symbols |-> <<>>]
    ELSE LET same_date_df == SelectSeq(full_df.rows,
                                 LAMBDA r : r.TriggerDate = trigger_date)
         IN  IF AttributeError(symbol)
                  \/ \E i \in DOMAIN same_date_df : AttributeError(same_date_df[i].Symbol)
             THEN [raised |-> TRUE, is_double_mint |-> FALSE, related_symbols |-> <<>>]
             ELSE LET underlying == extract_underlying_asset(symbol)
                      related == SelectSeq(same_date_df,
                                    LAMBDA r : /\ extract_underlying_asset(r.Symbol) = underlying
                                               /\ r.Symbol /= symbol)
                      related_symbols == [i \in DOMAIN related |-> related[i].Symbol]
                  IN  [raised |-> FALSE,
                       is_double_mint |-> Len(related_symbols) > 0,
                       related_symbols |-> related_symbols]

\* the result dict of analyze_alert; its four texts (frequency_tier emoji,
\* priority_emoji, analysis_summary, enhanced_details) are formatted from
\* these fields
Analysis(frequency, is_double_mint, related_symbols, underlying_asset, priority) ==
    [frequency |-> frequency, frequency_tier |-> get_frequency_tier(frequency),
     is_double_mint |-> is_double_mint, related_symbols |-> related_symbols,
     underlying_asset |-> underlying_asset, priority |-> priority]

\* the 'safe defaults' of lines 229-239
SafeDefaults(symbol) == Analysis(1, FALSE, <<>>, symbol, "STANDARD")

\* the try block of analyze_alert (lines 181-224): [raised, value]
analyze_alert_try(symbol, trigger_date, full_df) ==
    LET frequency == get_symbol_frequency(symbol, full_df)
        dm        == detect_double_mint(symbol, trigger_date, full_df)
    IN  IF dm.raised \/ AttributeError(symbol)
        THEN [raised |-> TRUE, value |-> SafeDefaults(symbol)]
        ELSE [raised |-> FALSE,
              value  |-> Analysis(frequency, dm.is_double_mint, dm.related_symbols,
                                  extract_underlying_asset(symbol),
                                  classify_priority(symbol, frequency, dm.is_double_mint))]

\* analyze_alert without its except clause
analyze_alert_unguarded(symbol, trigger_date, full_df) ==
    analyze_alert_try(symbol, trigger_date, full_df)

\* AlertIntelligenceEngine.analyze_alert: [raised, value]; the except clause
\* turns every exception of the try block into the defaults
analyze_alert(symbol, trigger_date, full_df) ==
    LET body == analyze_alert_try(symbol, trigger_date, full_df)
    IN  IF body.raised THEN [raised |-> FALSE, value |-> SafeDefaults(symbol)]
        ELSE body

\* AlertIntelligenceEngine.analyze_batch: [raised, results]; an exception
\* leaving analyze_alert would leave analyze_batch as well
analyze_batch(new_breakers_df, full_df) ==
    LET analysis == [i \in DOMAIN new_breakers_df |->
                        analyze_alert(new_breakers_df[i].Symbol,
                                      new_breakers_df[i].TriggerDate, full_df)]
    IN  IF \E i \in DOMAIN analysis : analysis[i].raised
        THEN [raised |-> TRUE, results |-> <<>>]
        ELSE [raised |-> FALSE,
              results |-> [i \in DOMAIN analysis |->
                              [analysis |-> analysis[i].value,
                               row_data |-> new_breakers_df[i]]]]

RECURSIVE AnalyzeRowSeqs(_)
AnalyzeRowSeqs(n) ==
    IF n = 0 THEN {<<>>}
    ELSE LET shorter == AnalyzeRowSeqs(n - 1)
         IN  shorter \cup {Append(s, r) : s \in {t \in shorter : Len(t) = n - 1},
                                         r \in AnalyzeRows}

\* full_df is None when the fetch before the manual check failed (main.py:767)
AnalyzeCalls ==
    [new_breakers_df : AnalyzeRowSeqs(MaxNewBreakers),
     full_df : {[present |-> FALSE, rows |-> <<>>]}
                 \cup [present : {TRUE}, rows : AnalyzeRowSeqs(MaxFullRows)]]

NoAnalysis == [done |-> FALSE, raised |-> FALSE, results |-> <<>>]

\* one call of analyze_batch
AnalyzeBatch ==
    /\ ~analyze_results.done
    /\ LET r == analyze_batch(analyze_call.new_breakers_df, analyze_call.full_df)
       IN  analyze_results' = [done |-> TRUE, raised |-> r.raised, results |-> r.results]
    /\ UNCHANGED analyze_call

\* extract_underlying_asset called for the symbol of classify_call
ExtractUnderlyingAsset ==
    /\ classify_result.underlying_asset = ""
    /\ classify_result' =
          [classify_result EXCEPT
              !.underlying_asset = extract_underlying_asset(classify_call.symbol)]
    /\ UNCHANGED classify_call

ClassifyIdle ==
    /\ classify_call = [symbol |-> "TSLT", frequency |-> 1, other_frequency |-> 1,
                        is_double_mint |-> FALSE]
    /\ classify_result = NoClassification

AnalyzeIdle ==
    /\ analyze_call = [new_breakers_df |-> <<>>,
                       full_df |-> [present |-> FALSE, rows |-> <<>>]]
    /\ analyze_results = NoAnalysis

EngineIdle == ClassifyIdle /\ AnalyzeIdle

----------------------------------------------------------------------------
(* SmartAlertBatcher, statement by statement. queue_alert runs in request  *)
(* threads and _process_batch in the thread of a threading.Timer; the      *)
(* class holds no lock, so the statements of the threads interleave. Here  *)
(* pending_alerts maps a key to the identity of a list object and          *)
(* batch_timers maps a key to the identity of a Timer.                     *)

QueueThreads == 1..MaxQueueThreads

\* the Change thread i hands to queue_alert: not a VIP symbol, both frames
\* non-empty; full_df tells the calls apart
ThreadAlert(i) ==
    [new_breakers |-> <<tslt_open>>, ended_breakers |-> <<tslt_closed>>,
     full_df |-> i, timestamp |-> now]

\* a Timer has been started and has not fired yet
Live(t) == timer_threads[t].pc = "waiting"

\* lines 92-105: the bypass test is false, the window and the key are
\* computed. The call reads the clock inside the bucket, so no Timer of the
\* bucket has fired yet.
QueueKey(i) ==
    /\ queue_threads[i].pc = "start"
    /\ ~should_bypass_batching(ThreadAlert(i).new_breakers, now)
    /\ \A t \in DOMAIN timer_threads :
          timer_threads[t].batch_key = batch_key_at(now) => Live(t)
    /\ queue_threads' = [queue_threads EXCEPT ![i].pc = "subscript",
                                              ![i].batch_key = batch_key_at(now)]
    /\ UNCHANGED <<list_objects, timer_threads, batchVars>>

\* line 108, self.pending_alerts[batch_key]: the defaultdict makes and stores
\* a new list if the key is missing
QueueSubscript(i) ==
    LET batch_key == queue_threads[i].batch_key
    IN  /\ queue_threads[i].pc = "subscript"
        /\ IF batch_key \in DOMAIN pending_alerts
           THEN /\ queue_threads' = [queue_threads EXCEPT
                                        ![i].pc = "append",
                                        ![i].list_ref = pending_alerts[batch_key]]
                /\ UNCHANGED <<pending_alerts, list_objects>>
           ELSE /\ list_objects' = Append(list_objects, <<>>)
                /\ pending_alerts' = pending_alerts @@ (batch_key :> Len(list_objects) + 1)
                /\ queue_threads' = [queue_threads EXCEPT
                                        ![i].pc = "append",
                                        ![i].list_ref = Len(list_objects) + 1]
        /\ UNCHANGED <<timer_threads, now, ticks, calls, batch_timers, health_monitor,
                       alert_ledger, emissions, flushed>>

\* lines 108-113 with an emission of its own for the queued Change
QueueAppendAndSend(i) ==
    /\ queue_threads[i].pc = "append"
    /\ list_objects' = [list_objects EXCEPT
                           ![queue_threads[i].list_ref] = Append(@, ThreadAlert(i))]
    /\ queue_threads' = [queue_threads EXCEPT ![i].pc = "check"]
    /\ emissions' = Append(emissions,
            [source |-> "queue", flush |-> 0,
             new_breakers |-> ThreadAlert(i).new_breakers,
             ended_breakers |-> ThreadAlert(i).ended_breakers,
             full_df |-> i, sends |-> 1, success |-> TRUE])
    /\ UNCHANGED <<timer_threads, now, ticks, calls, pending_alerts, batch_timers,
                   health_monitor, alert_ledger, flushed>>

\* lines 108-113, .append({...}) on the list object the subscript returned
QueueAppend(i) ==
    /\ queue_threads[i].pc = "append"
    /\ list_objects' = [list_objects EXCEPT
                           ![queue_threads[i].list_ref] = Append(@, ThreadAlert(i))]
    /\ queue_threads' = [queue_threads EXCEPT ![i].pc = "check"]
    /\ UNCHANGED <<timer_threads, batchVars>>

\* line 116: if batch_key not in self.batch_timers
QueueCheckTimer(i) ==
    /\ queue_threads[i].pc = "check"
    /\ queue_threads' = [queue_threads EXCEPT
                            ![i].pc = IF queue_threads[i].batch_key \in DOMAIN batch_timers
                                      THEN "done" ELSE "start_timer"]
    /\ UNCHANGED <<list_objects, timer_threads, batchVars>>

\* lines 117-122: timer = threading.Timer(...); timer.start()
QueueStartTimer(i) ==
    /\ queue_threads[i].pc = "start_timer"
    /\ timer_threads' = Append(timer_threads,
            [pc |-> "waiting", batch_key |-> queue_threads[i].batch_key,
             alerts_in_batch |-> 0, started_by |-> i])
    /\ queue_threads' = [queue_threads EXCEPT ![i].pc = "store_timer",
                                              ![i].timer = Len(timer_threads) + 1]
    /\ UNCHANGED <<list_objects, batchVars>>

\* line 123: self.batch_timers[batch_key] = timer
QueueStoreTimer(i) ==
    /\ queue_threads[i].pc = "store_timer"
    /\ batch_timers' =
          IF queue_threads[i].batch_key \in DOMAIN batch_timers
          THEN [batch_timers EXCEPT ![queue_threads[i].batch_key] = queue_threads[i].timer]
          ELSE batch_timers @@ (queue_threads[i].batch_key :> queue_threads[i].timer)
    /\ queue_threads' = [queue_threads EXCEPT ![i].pc = "done"]
    /\ UNCHANGED <<list_objects, timer_threads, now, ticks, calls, pending_alerts,
                   health_monitor, alert_ledger, emissions, flushed>>

\* the Timer fires after batch_window seconds, at least 15: the call that
\* started it has returned long before
TimerFire(t) ==
    /\ Live(t)
    /\ queue_threads[timer_threads[t].started_by].pc = "done"
    /\ timer_threads' = [timer_threads EXCEPT ![t].pc = "check"]
    /\ UNCHANGED <<list_objects, queue_threads, batchVars>>

\* lines 132-133: if batch_key not in self.pending_alerts: return
TimerCheck(t) ==
    /\ timer_threads[t].pc = "check"
    /\ timer_threads' = [timer_threads EXCEPT
                            ![t].pc = IF timer_threads[t].batch_key \in DOMAIN pending_alerts
                                      THEN "read" ELSE "returned"]
    /\ UNCHANGED <<list_objects, queue_threads, batchVars>>

\* line 135: alerts_in_batch = self.pending_alerts[batch_key]
TimerRead(t) ==
    LET batch_key == timer_threads[t].batch_key
    IN  /\ timer_threads[t].pc = "read"
        /\ IF batch_key \in DOMAIN pending_alerts
           THEN /\ timer_threads' = [timer_threads EXCEPT
                                        ![t].pc = "del_pending",
                                        ![t].alerts_in_batch = pending_alerts[batch_key]]
                /\ UNCHANGED <<pending_alerts, list_objects>>
           ELSE /\ list_objects' = Append(list_objects, <<>>)
                /\ pending_alerts' = pending_alerts @@ (batch_key :> Len(list_objects) + 1)
                /\ timer_threads' = [timer_threads EXCEPT
                                        ![t].pc = "del_pending",
                                        ![t].alerts_in_batch = Len(list_objects) + 1]
        /\ UNCHANGED <<queue_threads, now, ticks, calls, batch_timers, health_monitor,
                       alert_ledger, emissions, flushed>>

\* line 136: del self.pending_alerts[batch_key]
TimerDelPending(t) ==
    LET batch_key == timer_threads[t].batch_key
    IN  /\ timer_threads[t].pc = "del_pending"
        /\ IF batch_key \in DOMAIN pending_alerts
           THEN /\ pending_alerts' = Without(pending_alerts, batch_key)
                /\ timer_threads' = [timer_threads EXCEPT ![t].pc = "del_timers"]
           ELSE /\ timer_threads' = [timer_threads EXCEPT ![t].pc = "KeyError"]
                /\ UNCHANGED pending_alerts
        /\ UNCHANGED <<list_objects, queue_threads, now, ticks, calls, batch_timers,
                       health_monitor, alert_ledger, emissions, flushed>>

\* line 137: del self.batch_timers[batch_key]
TimerDelTimers(t) ==
    LET batch_key == timer_threads[t].batch_key
    IN  /\ timer_threads[t].pc = "del_timers"
        /\ IF batch_key \in DOMAIN batch_timers
           THEN /\ batch_timers' = Without(batch_timers, batch_key)
                /\ timer_threads' = [timer_threads EXCEPT ![t].pc = "send"]
           ELSE /\ timer_threads' = [timer_threads EXCEPT ![t].pc = "KeyError"]
                /\ UNCHANGED batch_timers
        /\ UNCHANGED <<list_objects, queue_threads, now, ticks, calls, pending_alerts,
                       health_monitor, alert_ledger, emissions, flushed>>

\* lines 139-170: the list is read, merged and sent
TimerSend(t, ok1, ok2) ==
    LET batch_key       == timer_threads[t].batch_key
        alerts_in_batch == list_objects[timer_threads[t].alerts_in_batch]
        news            == NonEmptyNew(alerts_in_batch)
        endeds          == NonEmptyEnded(alerts_in_batch)
    IN  /\ timer_threads[t].pc = "send"
        /\ IF alerts_in_batch = <<>>
           THEN /\ timer_threads' = [timer_threads EXCEPT ![t].pc = "returned"]
                /\ flushed' = Append(flushed,
                        [batch_key |-> batch_key, alerts |-> alerts_in_batch,
                         error |-> "", calls |-> 0])
                /\ UNCHANGED <<emissions, alert_ledger>>
           ELSE IF news = <<>> \/ endeds = <<>>
           THEN /\ timer_threads' = [timer_threads EXCEPT ![t].pc = "ValueError"]
                /\ flushed' = Append(flushed,
                        [batch_key |-> batch_key, alerts |-> alerts_in_batch,
                         error |-> "ValueError", calls |-> 0])
                /\ UNCHANGED <<emissions, alert_ledger>>
           ELSE LET all_new_breakers   == drop_duplicates(concat(news))
                    all_ended_breakers == drop_duplicates(concat(endeds))
                    latest_full_df == alerts_in_batch[Len(alerts_in_batch)].full_df
                    r == send_intelligent_alert(all_new_breakers, all_ended_breakers,
                                                health_monitor, alert_ledger, ok1, ok2)
                IN  /\ emissions' = Append(emissions,
                            [source |-> "batch", flush |-> Len(flushed) + 1,
                             new_breakers |-> all_new_breakers,
                             ended_breakers |-> all_ended_breakers,
                             full_df |-> latest_full_df,
                             sends |-> r.sends, success |-> r.success])
                    /\ alert_ledger' = r.ledger
                    /\ flushed' = Append(flushed,
                            [batch_key |-> batch_key, alerts |-> alerts_in_batch,
                             error |-> "", calls |-> 1])
                    /\ timer_threads' = [timer_threads EXCEPT ![t].pc = "returned"]
        /\ UNCHANGED <<list_objects, queue_threads, now, ticks, calls, pending_alerts,
                       batch_timers, health_monitor>>

ThreadsIdle ==
    /\ list_objects = <<>>
    /\ queue_threads = [i \in QueueThreads |->
                           [pc |-> "start", batch_key |-> 0, list_ref |-> 0, timer |-> 0]]
    /\ timer_threads = <<>>

----------------------------------------------------------------------------
(* get_batch_window as a function of the time of day.                      *)

\* every second of the day
TimesOfDay == 0..(dt_time(24, 0) - 1)

\* one call of get_batch_window
GetBatchWindow ==
    /\ window_result = 0
    /\ window_result' = get_batch_window(window_call)
    /\ UNCHANGED window_call

WindowIdle ==
    /\ window_call = 0
    /\ window_result = 0

----------------------------------------------------------------------------
(* The keys of a record: the 'UniqueKey' column of the diff and the alert  *)
(* id of the ledger.                                                       *)

\* rows as two polls of the feed may deliver them: the casing of a symbol may vary
KeySymbols == {"TSLT", "TSLZ", "tslt"}
KeyDates   == {"2025-08-12", "2025-08-13"}
KeyTimes   == {"09:30:00", "09:03:00"}
KeyRows ==
    [Symbol : KeySymbols, TriggerDate : KeyDates, TriggerTime : KeyTimes,
     EndDate : {NULL}, EndTime : {NULL}]
    \cup [Symbol : KeySymbols, TriggerDate : KeyDates, TriggerTime : KeyTimes,
          EndDate : {"2025-08-13"}, EndTime : {"09:35:00"}]

NoKeys == [unique_keys |-> <<>>, alert_ids |-> <<>>]

\* the 'UniqueKey' column assigned to the two rows (time_travel_tester.py 76-77)
AssignUniqueKey ==
    /\ key_result.unique_keys = <<>>
    /\ key_result' = [key_result EXCEPT
                         !.unique_keys = <<UniqueKey(key_call.first),
                                           UniqueKey(key_call.second)>>]
    /\ UNCHANGED key_call

\* the alert ids _record_intelligent_alerts builds for the two rows
AssignAlertId ==
    /\ key_result.alert_ids = <<>>
    /\ key_result' = [key_result EXCEPT
                         !.alert_ids = <<new_alert_id(key_call.first),
                                         new_alert_id(key_call.second)>>]
    /\ UNCHANGED key_call

KeyIdle ==
    /\ key_call = [first |-> tslt_open, second |-> tslt_open]
    /\ key_result = NoKeys

----------------------------------------------------------------------------
(* ShortSaleAlertFormatter (alerts/templates.py).                          *)
(* The emoji of the templates are written as :name: here.                  *)

\* the dates and the times of day of the formatted records, in the order
\* of their strings
FormatDates == <<"2025-08-11", "2025-08-12">>
FormatTimes == <<"09:30:00", "09:35:00">>

\* the rank of the string v in the ascending list of column values
RankIn(values, v) == CHOOSE i \in DOMAIN values : values[i] = v

SecurityNames ==
    { [Symbol |-> "TSLA", SecurityName |-> "Tesla Inc"],
      [Symbol |-> "TSLT", SecurityName |-> "T-Rex 2X Long Tesla"],
      [Symbol |-> "HOOD", SecurityName |-> "Robinhood Markets"] }

\* records as format_changes_alert gets them: started ones with their
\* trigger fields, ended ones with both end fields or with neither
StartedRows ==
    { [Symbol |-> n.Symbol, SecurityName |-> n.SecurityName,
       TriggerDate |-> d, TriggerTime |-> t, EndDate |-> NULL, EndTime |-> NULL] :
        n \in SecurityNames, d \in Range(FormatDates), t \in Range(FormatTimes) }
EndedRows ==
    { [Symbol |-> n.Symbol, SecurityName |-> n.SecurityName,
       TriggerDate |-> FormatDates[1], TriggerTime |-> FormatTimes[1],
       EndDate |-> e[1], EndTime |-> e[2]] :
        n \in SecurityNames,
        e \in {<<NULL, NULL>>} \cup (Range(FormatDates) \X Range(FormatTimes)) }

\* str.split(): the words of a text separated by single blanks
RECURSIVE split(_)
split(text) ==
    IF \E i \in 1..Len(text) : SubSeq(text, i, i) = " "
    THEN LET i == CHOOSE j \in 1..Len(text) :
                      /\ SubSeq(text, j, j) = " "
                      /\ \A k \in 1..(j - 1) : SubSeq(text, k, k) /= " "
         IN  <<SubSeq(text, 1, i - 1)>> \o split(SubSeq(text, i + 1, Len(text)))
    ELSE <<text>>

\* _extract_underlying_ticker: the word after LONG, else after INVERSE
extract_underlying_ticker(security_name) ==
    LET words == split(Upper(security_name))
        index(keyword) == CHOOSE i \in DOMAIN words :
                              /\ words[i] = keyword
                              /\ \A j \in 1..(i - 1) : words[j] /= keyword
        Has(keyword) == keyword \in Range(words) /\ index(keyword) + 1 <= Len(words)
    IN  IF Has("LONG") THEN words[index("LONG") + 1]
        ELSE IF Has("INVERSE") THEN words[index("INVERSE") + 1]
        ELSE NULL

\* the column a section sorts and prints: 'Trigger Date'/'Trigger Time' for
\* the started section, 'End Date'/'End Time' for the ended one
DateCol(row, status_text) == IF status_text = "Started" THEN row.TriggerDate ELSE row.EndDate
TimeCol(row, status_text) == IF status_text = "Started" THEN row.TriggerTime ELSE row.EndTime

is_vip(row) == row.Symbol \in Range(VIP_SYMBOLS)

\* -1, 0, 1: x sorts before, with, after y in a descending column, NaN last
CompareDescending(values, x, y) ==
    IF x = y THEN 0
    ELSE IF x = NULL THEN 1
    ELSE IF y = NULL THEN -1
    ELSE IF RankIn(values, x) > RankIn(values, y) THEN -1 ELSE 1

\* a sorts strictly before b under
\* sort_values(by=['is_vip', date_col, time_col], ascending=[False, False, False])
SortsBefore(a, b, status_text) ==
    LET byDate == CompareDescending(FormatDates, DateCol(a, status_text), DateCol(b, status_text))
        byTime == CompareDescending(FormatTimes, TimeCol(a, status_text), TimeCol(b, status_text))
    IN  IF is_vip(a) /= is_vip(b) THEN is_vip(a)
        ELSE IF byDate /= 0 THEN byDate < 0
        ELSE byTime < 0

\* the row put into the sorted list s, behind the rows that sort with it
InsertRow(s, row, status_text) ==
    IF \E j \in DOMAIN s : SortsBefore(row, s[j], status_text)
    THEN LET j == CHOOSE i \in DOMAIN s :
                      /\ SortsBefore(row, s[i], status_text)
                      /\ \A k \in 1..(i - 1) : ~SortsBefore(row, s[k], status_text)
         IN  SubSeq(s, 1, j - 1) \o <<row>> \o SubSeq(s, j, Len(s))
    ELSE Append(s, row)

\* df.sort_values(...): a stable sort
sort_values(df, status_text) ==
    LET Sorted[i \in 0..Len(df)] ==
            IF i = 0 THEN <<>> ELSE InsertRow(Sorted[i - 1], df[i], status_text)
    IN  Sorted[Len(df)]

\* one line of the message
format_line(row, status_text, today_str) ==
    LET vip_marker == IF is_vip(row) THEN ":star: " ELSE ""
        underlying == extract_underlying_ticker(row.SecurityName)
        date_info  == IF DateCol(row, status_text) = today_str THEN "Today"
                      ELSE IF DateCol(row, status_text) = NULL THEN "nan"
                      ELSE DateCol(row, status_text)
        time_info  == IF TimeCol(row, status_text) = NULL THEN "nan"
                      ELSE TimeCol(row, status_text)
        tail       == " (" \o status_text \o " " \o date_info \o " at " \o time_info \o ")"
    IN  IF notnull(underlying)
        THEN "* " \o vip_marker \o "**" \o underlying \o "** (*" \o row.Symbol \o "*) - "
                  \o row.SecurityName \o tail
        ELSE "* " \o vip_marker \o "**" \o row.Symbol \o "** (*" \o row.SecurityName \o "*)" \o tail

\* _format_ticker_lines
format_ticker_lines(df, status_text, today_str) ==
    LET df_sorted == sort_values(df, status_text)
    IN  [i \in DOMAIN df_sorted |-> format_line(df_sorted[i], status_text, today_str)]

NoFormat ==
    [done |-> FALSE, title |-> "", message_parts |-> <<>>, started |-> <<>>, ended |-> <<>>]

\* format_changes_alert(new_breakers_df, ended_breakers_df); started and
\* ended are the rows in the order in which their lines are written
FormatChangesAlert ==
    /\ ~format_result.done
    /\ LET new_breakers_df   == format_call.new_breakers_df
           ended_breakers_df == format_call.ended_breakers_df
           num_started == Len(new_breakers_df)
           num_ended   == Len(ended_breakers_df)
           title == ":zap: CBOE Changes: " \o ToString(num_started) \o " Started, "
                    \o ToString(num_ended) \o " Ended"
           started_part ==
               IF new_breakers_df /= <<>>
               THEN <<":new: **" \o ToString(num_started) \o " STARTED:**">>
                    \o format_ticker_lines(new_breakers_df, "Started", format_call.today)
                    \o <<"">>
               ELSE <<>>
           ended_part ==
               IF ended_breakers_df /= <<>>
               THEN <<":white_check_mark: **" \o ToString(num_ended) \o " ENDED:**">>
                    \o format_ticker_lines(ended_breakers_df, "Ended", format_call.today)
               ELSE <<>>
       IN  format_result' =
               [done |-> TRUE, title |-> title,
                message_parts |-> <<"**CHANGES DETECTED**">> \o started_part \o ended_part,
                started |-> sort_values(new_breakers_df, "Started"),
                ended   |-> sort_values(ended_breakers_df, "Ended")]
    /\ UNCHANGED format_call

FormatIdle ==
    /\ format_call = [new_breakers_df |-> <<>>, ended_breakers_df |-> <<>>, today |-> ""]
    /\ format_result = NoFormat


----------------------------------------------------------------------------
(* HealthMonitor (trust_dashboard.py) and EnhancedHealthMonitor             *)
(* (services/health_monitor.py): calls made one after the other, and calls  *)
(* made by several threads.                                                 *)

\* deque(maxlen=max_log_size) of the transaction log
max_log_size == 100

\* deque(maxlen=n).appendleft(e): the rightmost entry leaves a full deque
deque_appendleft(dq, e, n) ==
    LET l == <<e>> \o dq
    IN  IF Len(l) > n THEN SubSeq(l, 1, n) ELSE l

\* deque(maxlen=n).append(e): the leftmost entry leaves a full deque
deque_append(dq, e, n) ==
    LET l == Append(dq, e)
    IN  IF Len(l) > n THEN SubSeq(l, 2, Len(l)) ELSE l

\* the entry log_transaction writes at time t; by is the calling thread
log_entry(t, level, by) == [timestamp |-> t, level |-> level, by |-> by]

\* the entry record_alert_sent / record_alert_sent_enhanced writes
alert_entry(t, by) == [timestamp |-> t, by |-> by]

\* the log after the entry of the constructor's log_transaction call
InitialLog == <<log_entry(0, "INFO", 0)>>

NoCheckStatus == [timestamp |-> -1, successful |-> FALSE]

\* _load_ledger_from_firestore: the k latest stored alerts, latest first
loaded_alerts(k) == [i \in 1..k |-> alert_entry(0 - i, 0)]

\* --- calls made one after the other, on an EnhancedHealthMonitor ---

\* log_transaction(message, level)
LogTransaction(level) ==
    /\ health_ops < MaxHealthOps
    /\ health_ops' = health_ops + 1
    /\ transaction_log' = deque_appendleft(transaction_log,
                              log_entry(health_ops + 1, level, 0), max_log_size)
    /\ UNCHANGED <<monitor_class, health_recorded, last_check_status, monitor_ledger,
                   health_lock, health_threads>>

\* record_check_attempt(success, ...)
RecordCheckAttempt(success) ==
    /\ health_ops < MaxHealthOps
    /\ health_recorded < MaxRecorded
    /\ health_ops' = health_ops + 1
    /\ health_recorded' = health_recorded + 1
    /\ last_check_status' = [timestamp |-> health_ops + 1, successful |-> success]
    /\ transaction_log' = deque_appendleft(transaction_log,
                              log_entry(health_ops + 1, IF success THEN "SUCCESS" ELSE "ERROR", 0),
                              max_log_size)
    /\ UNCHANGED <<monitor_class, monitor_ledger, health_lock, health_threads>>

\* record_alert_sent_enhanced with the ledger written at the right end
RecordAlertSentEnhancedAppending ==
    /\ health_ops < MaxHealthOps
    /\ health_recorded < MaxRecorded
    /\ health_ops' = health_ops + 1
    /\ health_recorded' = health_recorded + 1
    /\ monitor_ledger' = deque_append(monitor_ledger, alert_entry(health_ops + 1, 0), max_ledger_size)
    /\ transaction_log' = deque_appendleft(transaction_log,
                              log_entry(health_ops + 1, "SUCCESS", 0), max_log_size)
    /\ UNCHANGED <<monitor_class, last_check_status, health_lock, health_threads>>

\* record_alert_sent_enhanced(alert_id, ...); the write to Firestore of
\* lines 94-98 changes nothing of the monitor, whether it succeeds or not
RecordAlertSentEnhanced ==
    /\ health_ops < MaxHealthOps
    /\ health_recorded < MaxRecorded
    /\ health_ops' = health_ops + 1
    /\ health_recorded' = health_recorded + 1
    /\ monitor_ledger' = deque_appendleft(monitor_ledger, alert_entry(health_ops + 1, 0), max_ledger_size)
    /\ transaction_log' = deque_appendleft(transaction_log,
                              log_entry(health_ops + 1, "SUCCESS", 0), max_log_size)
    /\ UNCHANGED <<monitor_class, last_check_status, health_lock, health_threads>>

\* --- calls made by several threads ---

HealthThreads == 1..MaxHealthThreads

HealthCalls == {"record_check_attempt", "log_transaction", "record_alert_sent",
                "get_health_snapshot"}

NoSnapshot == [taken |-> FALSE, transactions |-> <<>>, alerts |-> <<>>]

\* the first statement of a call: each of the four starts with 'with self.lock'
FirstPc(call) ==
    CASE call = "record_check_attempt" -> "status_acquire"
      [] call = "log_transaction"      -> "log_acquire"
      [] call = "record_alert_sent"    -> "ledger_acquire"
      [] call = "get_health_snapshot"  -> "snapshot_acquire"

\* the with-block entered by the acquisition at pc
BlockOf(pc) ==
    CASE pc = "status_acquire"   -> "status_block"
      [] pc = "log_acquire"      -> "log_block"
      [] pc = "ledger_acquire"   -> "ledger_block"
      [] pc = "snapshot_acquire" -> "snapshot_block"

AcquirePcs == {"status_acquire", "log_acquire", "ledger_acquire", "snapshot_acquire"}

\* 'with self.lock:' a threading.Lock is taken only while no thread holds
\* it, the calling thread included
Acquire(i) ==
    /\ health_threads[i].pc \in AcquirePcs
    /\ health_lock = 0
    /\ health_lock' = i
    /\ health_threads' = [health_threads EXCEPT ![i].pc = BlockOf(@)]
    /\ UNCHANGED <<monitor_class, health_ops, health_recorded, last_check_status,
                   transaction_log, monitor_ledger>>

\* record_check_attempt calling log_transaction inside its with-block
StatusBlockKeepingLock(i) ==
    /\ health_threads[i].pc = "status_block"
    /\ last_check_status' = [timestamp |-> health_ops,
                             successful |-> health_threads[i].success]
    /\ health_threads' = [health_threads EXCEPT ![i].pc = "log_acquire"]
    /\ UNCHANGED <<monitor_class, health_ops, health_recorded, transaction_log,
                   monitor_ledger, health_lock>>

\* record_check_attempt: the with-block, left before log_transaction is
\* called; HealthMonitor slices file_hash for the message of a successful
\* attempt, which raises TypeError for the default file_hash=None
StatusBlock(i) ==
    /\ health_threads[i].pc = "status_block"
    /\ last_check_status' = [timestamp |-> health_ops,
                             successful |-> health_threads[i].success]
    /\ health_lock' = 0
    /\ health_threads' = [health_threads EXCEPT ![i].pc =
           IF /\ monitor_class = "HealthMonitor"
              /\ health_threads[i].success
              /\ health_threads[i].file_hash = NULL
           THEN "TypeError" ELSE "log_acquire"]
    /\ UNCHANGED <<monitor_class, health_ops, health_recorded, transaction_log, monitor_ledger>>

\* log_transaction: the with-block
LogBlock(i) ==
    /\ health_threads[i].pc = "log_block"
    /\ transaction_log' = deque_appendleft(transaction_log,
           log_entry(health_ops,
                     IF health_threads[i].call = "log_transaction" THEN "INFO"
                     ELSE IF health_threads[i].success THEN "SUCCESS" ELSE "ERROR", i),
           max_log_size)
    /\ health_lock' = 0
    /\ health_threads' = [health_threads EXCEPT ![i].pc = "done", ![i].wrote_log = TRUE]
    /\ UNCHANGED <<monitor_class, health_ops, health_recorded, last_check_status, monitor_ledger>>

\* record_alert_sent, record_alert_sent_enhanced: the with-block; the
\* Firestore write of the enhanced monitor follows it outside the lock and
\* changes nothing of the monitor; log_transaction is called last
LedgerBlock(i) ==
    /\ health_threads[i].pc = "ledger_block"
    /\ monitor_ledger' = deque_appendleft(monitor_ledger, alert_entry(health_ops, i), max_ledger_size)
    /\ health_lock' = 0
    /\ health_threads' = [health_threads EXCEPT ![i].pc = "log_acquire",
                                                ![i].wrote_ledger = TRUE]
    /\ UNCHANGED <<monitor_class, health_ops, health_recorded, last_check_status,
                   transaction_log>>

\* get_health_snapshot: the with-block
SnapshotBlock(i) ==
    /\ health_threads[i].pc = "snapshot_block"
    /\ health_lock' = 0
    /\ health_threads' = [health_threads EXCEPT
           ![i].pc = "done",
           ![i].snapshot = [taken |-> TRUE, transactions |-> transaction_log,
                            alerts |-> monitor_ledger]]
    /\ UNCHANGED <<monitor_class, health_ops, health_recorded, last_check_status,
                   transaction_log, monitor_ledger>>

HealthIdle ==
    /\ monitor_class = ""
    /\ health_ops = 0
    /\ health_recorded = 0
    /\ last_check_status = NoCheckStatus
    /\ transaction_log = <<>>
    /\ monitor_ledger = <<>>
    /\ health_lock = 0
    /\ health_threads = <<>>


----------------------------------------------------------------------------
(* Specifications.                                                         *)

DiffInit ==
    /\ CheckIdle
    /\ HealthIdle
    /\ FormatIdle
    /\ ManualIdle
    /\ WindowIdle
    /\ ThreadsIdle
    /\ KeyIdle
    /\ BatchIdle
    /\ SpeedIdle
    /\ EngineIdle
    /\ \E b \in 0..MaxRows : \E a \in 0..(MaxRows - b) :
          /\ before_state \in RowSeqs(b)
          /\ \E rows \in RowSeqs(a) : \E s \in 0..a :
                after_state = [rows |-> rows, index |-> IndexSkipping(a, s)]
    /\ new_alerts = <<>>
    /\ ended_alerts = <<>>
    /\ diff_status = "idle"

DiffNext == DetectChanges /\ UNCHANGED <<checkVars, batchVars, speedVars, engineVars, keyVars, threadVars, windowVars, manualVars, formatVars, healthVars>>

SpecDiff == DiffInit /\ [][DiffNext]_vars

CheckInit == CheckIdle /\ DiffIdle /\ BatchIdle /\ SpeedIdle /\ EngineIdle /\ KeyIdle /\ ThreadsIdle /\ WindowIdle /\ ManualIdle /\ FormatIdle /\ HealthIdle

CheckNext ==
    \/ CheckDownloadFailed /\ UNCHANGED <<diffVars, batchVars, speedVars, engineVars, keyVars, threadVars, windowVars, manualVars, formatVars, healthVars>>
    \/ \E t \in CheckTable : \E discord_ok \in BOOLEAN :
          CheckDownloaded(t, discord_ok) /\ UNCHANGED <<diffVars, batchVars, speedVars, engineVars, keyVars, threadVars, windowVars, manualVars, formatVars, healthVars>>
    \/ ManualCheckDownloadFailed /\ UNCHANGED <<diffVars, batchVars, speedVars, engineVars, keyVars, threadVars, windowVars, formatVars, healthVars>>
    \/ \E t \in CheckTable : \E active \in SUBSET (DOMAIN t.df) : \E discord_ok \in BOOLEAN :
          ManualCheck(t, active, discord_ok) /\ UNCHANGED <<diffVars, batchVars, speedVars, engineVars, keyVars, threadVars, windowVars, formatVars, healthVars>>

SpecCheck == CheckInit /\ [][CheckNext]_vars

BatchInit ==
    /\ DiffIdle
    /\ HealthIdle
    /\ FormatIdle
    /\ ManualIdle
    /\ WindowIdle
    /\ ThreadsIdle
    /\ KeyIdle
    /\ CheckIdle
    /\ SpeedIdle
    /\ EngineIdle
    /\ now \in StartTimes
    /\ ticks = 0
    /\ calls = 0
    /\ pending_alerts = <<>>
    /\ batch_timers = <<>>
    /\ health_monitor \in HealthMonitors
    /\ alert_ledger = <<>>
    /\ emissions = <<>>
    /\ flushed = <<>>

BatchNext ==
    \/ \E c \in Changes : \E ok1, ok2 \in BOOLEAN :
          QueueAlert(c, ok1, ok2) /\ UNCHANGED <<diffVars, checkVars, speedVars, engineVars, keyVars, threadVars, windowVars, manualVars, formatVars, healthVars>>
    \/ \E k \in BatchKeys : \E ok1, ok2 \in BOOLEAN :
          ProcessBatch(k, ok1, ok2) /\ UNCHANGED <<diffVars, checkVars, speedVars, engineVars, keyVars, threadVars, windowVars, manualVars, formatVars, healthVars>>
    \/ Tick /\ UNCHANGED <<diffVars, checkVars, speedVars, engineVars, keyVars, threadVars, windowVars, manualVars, formatVars, healthVars>>

SpecBatch == BatchInit /\ [][BatchNext]_vars

ClassifyInit ==
    /\ DiffIdle /\ CheckIdle /\ BatchIdle /\ SpeedIdle /\ AnalyzeIdle
    /\ HealthIdle
    /\ FormatIdle
    /\ ManualIdle
    /\ WindowIdle
    /\ ThreadsIdle
    /\ KeyIdle
    /\ classify_call \in ClassifyCalls
    /\ classify_result = NoClassification

ClassifyNext ==
    \/ ClassifyPriority
          /\ UNCHANGED <<diffVars, checkVars, batchVars, speedVars, analyzeVars, keyVars, threadVars, windowVars, manualVars, formatVars, healthVars>>
    \/ GetFrequencyTier
          /\ UNCHANGED <<diffVars, checkVars, batchVars, speedVars, analyzeVars, keyVars, threadVars, windowVars, manualVars, formatVars, healthVars>>
    \/ ExtractUnderlyingAsset
          /\ UNCHANGED <<diffVars, checkVars, batchVars, speedVars, analyzeVars, keyVars, threadVars, windowVars, manualVars, formatVars, healthVars>>

SpecClassify == ClassifyInit /\ [][ClassifyNext]_vars

AnalyzeInit ==
    /\ DiffIdle /\ CheckIdle /\ BatchIdle /\ SpeedIdle /\ ClassifyIdle
    /\ HealthIdle
    /\ FormatIdle
    /\ ManualIdle
    /\ WindowIdle
    /\ ThreadsIdle
    /\ KeyIdle
    /\ analyze_call \in AnalyzeCalls
    /\ analyze_results = NoAnalysis

AnalyzeNext ==
    AnalyzeBatch /\ UNCHANGED <<diffVars, checkVars, batchVars, speedVars, classifyVars, keyVars, threadVars, windowVars, manualVars, formatVars, healthVars>>

SpecAnalyze == AnalyzeInit /\ [][AnalyzeNext]_vars

KeyInit ==
    /\ DiffIdle /\ CheckIdle /\ BatchIdle /\ SpeedIdle /\ EngineIdle
    /\ HealthIdle
    /\ FormatIdle
    /\ ManualIdle
    /\ WindowIdle
    /\ ThreadsIdle
    /\ key_call \in [first : KeyRows, second : KeyRows]
    /\ key_result = NoKeys

KeyNext ==
    \/ AssignUniqueKey
          /\ UNCHANGED <<diffVars, checkVars, batchVars, speedVars, engineVars, threadVars, windowVars, manualVars, formatVars, healthVars>>
    \/ AssignAlertId
          /\ UNCHANGED <<diffVars, checkVars, batchVars, speedVars, engineVars, threadVars, windowVars, manualVars, formatVars, healthVars>>

SpecKey == KeyInit /\ [][KeyNext]_vars

\* request threads and Timer threads of one batcher, during market hours
ThreadsInit ==
    /\ DiffIdle /\ CheckIdle /\ SpeedIdle /\ EngineIdle /\ KeyIdle
    /\ HealthIdle
    /\ FormatIdle
    /\ ManualIdle
    /\ WindowIdle
    /\ ThreadsIdle
    /\ now = dt_time(10, 30)
    /\ ticks = 0
    /\ calls = 0
    /\ pending_alerts = <<>>
    /\ batch_timers = <<>>
    /\ health_monitor \in HealthMonitors
    /\ alert_ledger = <<>>
    /\ emissions = <<>>
    /\ flushed = <<>>

ThreadsNext ==
    \/ \E i \in QueueThreads :
          QueueKey(i) /\ UNCHANGED <<diffVars, checkVars, speedVars, engineVars, keyVars, windowVars, manualVars, formatVars, healthVars>>
    \/ \E i \in QueueThreads :
          QueueSubscript(i) /\ UNCHANGED <<diffVars, checkVars, speedVars, engineVars, keyVars, windowVars, manualVars, formatVars, healthVars>>
    \/ \E i \in QueueThreads :
          QueueAppend(i) /\ UNCHANGED <<diffVars, checkVars, speedVars, engineVars, keyVars, windowVars, manualVars, formatVars, healthVars>>
    \/ \E i \in QueueThreads :
          QueueCheckTimer(i) /\ UNCHANGED <<diffVars, checkVars, speedVars, engineVars, keyVars, windowVars, manualVars, formatVars, healthVars>>
    \/ \E i \in QueueThreads :
          QueueStartTimer(i) /\ UNCHANGED <<diffVars, checkVars, speedVars, engineVars, keyVars, windowVars, manualVars, formatVars, healthVars>>
    \/ \E i \in QueueThreads :
          QueueStoreTimer(i) /\ UNCHANGED <<diffVars, checkVars, speedVars, engineVars, keyVars, windowVars, manualVars, formatVars, healthVars>>
    \/ \E t \in DOMAIN timer_threads :
          TimerFire(t) /\ UNCHANGED <<diffVars, checkVars, speedVars, engineVars, keyVars, windowVars, manualVars, formatVars, healthVars>>
    \/ \E t \in DOMAIN timer_threads :
          TimerCheck(t) /\ UNCHANGED <<diffVars, checkVars, speedVars, engineVars, keyVars, windowVars, manualVars, formatVars, healthVars>>
    \/ \E t \in DOMAIN timer_threads :
          TimerRead(t) /\ UNCHANGED <<diffVars, checkVars, speedVars, engineVars, keyVars, windowVars, manualVars, formatVars, healthVars>>
    \/ \E t \in DOMAIN timer_threads :
          TimerDelPending(t) /\ UNCHANGED <<diffVars, checkVars, speedVars, engineVars, keyVars, windowVars, manualVars, formatVars, healthVars>>
    \/ \E t \in DOMAIN timer_threads :
          TimerDelTimers(t) /\ UNCHANGED <<diffVars, checkVars, speedVars, engineVars, keyVars, windowVars, manualVars, formatVars, healthVars>>
    \/ \E t \in DOMAIN timer_threads : \E ok1, ok2 \in BOOLEAN :
          TimerSend(t, ok1, ok2) /\ UNCHANGED <<diffVars, checkVars, speedVars, engineVars, keyVars, windowVars, manualVars, formatVars, healthVars>>

SpecThreads == ThreadsInit /\ [][ThreadsNext]_vars

WindowInit ==
    /\ DiffIdle /\ CheckIdle /\ BatchIdle /\ SpeedIdle /\ EngineIdle /\ KeyIdle
    /\ HealthIdle
    /\ FormatIdle
    /\ ManualIdle
    /\ ThreadsIdle
    /\ window_call \in TimesOfDay
    /\ window_result = 0

WindowNext ==
    GetBatchWindow /\ UNCHANGED <<diffVars, checkVars, batchVars, speedVars, engineVars,
                                  keyVars, threadVars, manualVars, formatVars, healthVars>>

SpecWindow == WindowInit /\ [][WindowNext]_vars

\* one call of format_changes_alert on any two frames
FormatInit ==
    /\ DiffIdle
    /\ HealthIdle
    /\ CheckIdle
    /\ BatchIdle
    /\ SpeedIdle
    /\ EngineIdle
    /\ KeyIdle
    /\ ThreadsIdle
    /\ WindowIdle
    /\ ManualIdle
    /\ \E n, m \in 0..MaxFormatRows :
          format_call \in [new_breakers_df : [1..n -> StartedRows],
                           ended_breakers_df : [1..m -> EndedRows],
                           today : {FormatDates[2]}]
    /\ format_result = NoFormat

FormatNext ==
    FormatChangesAlert /\ UNCHANGED <<diffVars, checkVars, batchVars, speedVars, engineVars, keyVars, threadVars, windowVars, manualVars, healthVars>>

SpecFormat == FormatInit /\ [][FormatNext]_vars

\* an EnhancedHealthMonitor after its constructor, which has loaded the
\* stored alerts and logged one transaction; then calls one after the other
HealthInit ==
    /\ DiffIdle
    /\ CheckIdle
    /\ BatchIdle
    /\ SpeedIdle
    /\ EngineIdle
    /\ KeyIdle
    /\ ThreadsIdle
    /\ WindowIdle
    /\ ManualIdle
    /\ FormatIdle
    /\ monitor_class = "EnhancedHealthMonitor"
    /\ health_ops = 0
    /\ health_recorded = 0
    /\ last_check_status = NoCheckStatus
    /\ transaction_log = InitialLog
    /\ \E k \in {0, max_ledger_size - 1, max_ledger_size} : monitor_ledger = loaded_alerts(k)
    /\ health_lock = 0
    /\ health_threads = <<>>

HealthNext ==
    \/ \E level \in {"INFO"} : LogTransaction(level) /\ UNCHANGED <<diffVars, checkVars, batchVars, speedVars, engineVars, keyVars, threadVars, windowVars, manualVars, formatVars>>
    \/ \E success \in BOOLEAN : RecordCheckAttempt(success) /\ UNCHANGED <<diffVars, checkVars, batchVars, speedVars, engineVars, keyVars, threadVars, windowVars, manualVars, formatVars>>
    \/ RecordAlertSentEnhanced /\ UNCHANGED <<diffVars, checkVars, batchVars, speedVars, engineVars, keyVars, threadVars, windowVars, manualVars, formatVars>>

SpecHealth == HealthInit /\ [][HealthNext]_vars

\* a monitor of either class after its constructor, and one call per thread
HealthThreadsInit ==
    /\ DiffIdle
    /\ CheckIdle
    /\ BatchIdle
    /\ SpeedIdle
    /\ EngineIdle
    /\ KeyIdle
    /\ ThreadsIdle
    /\ WindowIdle
    /\ ManualIdle
    /\ FormatIdle
    /\ monitor_class \in HealthMonitors
    /\ health_ops = 0
    /\ health_recorded = 0
    /\ last_check_status = NoCheckStatus
    /\ transaction_log = InitialLog
    /\ monitor_ledger = <<>>
    /\ health_lock = 0
    /\ \E calls_made \in [HealthThreads -> HealthCalls \X BOOLEAN \X {NULL, "md5"}] :
          health_threads = [i \in HealthThreads |->
              [call |-> calls_made[i][1], success |-> calls_made[i][2],
               file_hash |-> calls_made[i][3],
               pc |-> FirstPc(calls_made[i][1]), wrote_log |-> FALSE,
               wrote_ledger |-> FALSE, snapshot |-> NoSnapshot]]

HealthThreadsNext ==
    \/ \E i \in HealthThreads : Acquire(i) /\ UNCHANGED <<diffVars, checkVars, batchVars, speedVars, engineVars, keyVars, threadVars, windowVars, manualVars, formatVars>>
    \/ \E i \in HealthThreads : StatusBlock(i) /\ UNCHANGED <<diffVars, checkVars, batchVars, speedVars, engineVars, keyVars, threadVars, windowVars, manualVars, formatVars>>
    \/ \E i \in HealthThreads : LogBlock(i) /\ UNCHANGED <<diffVars, checkVars, batchVars, speedVars, engineVars, keyVars, threadVars, windowVars, manualVars, formatVars>>
    \/ \E i \in HealthThreads : LedgerBlock(i) /\ UNCHANGED <<diffVars, checkVars, batchVars, speedVars, engineVars, keyVars, threadVars, windowVars, manualVars, formatVars>>
    \/ \E i \in HealthThreads : SnapshotBlock(i) /\ UNCHANGED <<diffVars, checkVars, batchVars, speedVars, engineVars, keyVars, threadVars, windowVars, manualVars, formatVars>>

SpecHealthThreads == HealthThreadsInit /\ [][HealthThreadsNext]_vars

\* a thread that can take a step is scheduled in the end
FairSpecHealthThreads == SpecHealthThreads /\ WF_vars(HealthThreadsNext)

\* the two monitors, each run by its own scheduler job
MonitorsInit == CheckIdle /\ SpeedIdle /\ DiffIdle /\ BatchIdle /\ EngineIdle /\ KeyIdle /\ ThreadsIdle /\ WindowIdle /\ ManualIdle /\ FormatIdle /\ HealthIdle

MonitorsNext ==
    \/ CheckDownloadFailed /\ UNCHANGED <<diffVars, batchVars, speedVars, engineVars, keyVars, threadVars, windowVars, manualVars, formatVars, healthVars>>
    \/ \E t \in CheckTable : \E discord_ok \in BOOLEAN :
          CheckDownloaded(t, discord_ok) /\ UNCHANGED <<diffVars, batchVars, speedVars, engineVars, keyVars, threadVars, windowVars, manualVars, formatVars, healthVars>>
    \/ QuickCheckFetchFailed /\ UNCHANGED <<diffVars, batchVars, checkVars, engineVars, keyVars, threadVars, windowVars, manualVars, formatVars, healthVars>>
    \/ \E current_data \in SpeedFrames :
          QuickCheckFetched(current_data) /\ UNCHANGED <<diffVars, batchVars, checkVars, engineVars, keyVars, threadVars, windowVars, manualVars, formatVars, healthVars>>

SpecMonitors == MonitorsInit /\ [][MonitorsNext]_vars

----------------------------------------------------------------------------
(* What the diff is specified to return (spec.md, sections 3 and 4.2).     *)

\* the identity of a record: symbol, trigger date, trigger time
KeyOf(r) == <<r.Symbol, r.TriggerDate, r.TriggerTime>>
KeysOf(s) == {KeyOf(r) : r \in Range(s)}

\* closed iff both end fields are present; otherwise the record counts as open
Closed(r) == r.EndDate /= NULL /\ r.EndTime /= NULL
Open(r)   == ~Closed(r)

\* an end state that is one of the two the data model allows
Consistent(r) == (r.EndDate = NULL) <=> (r.EndTime = NULL)

ExpectedNew(before, after) ==
    LET Absent(r) == KeyOf(r) \notin KeysOf(before)
    IN  SelectSeq(after.rows, Absent)

ExpectedEndedKeys(before, after) ==
    {k \in KeysOf(before) \cap KeysOf(after.rows) :
        /\ \E b \in Range(before) : KeyOf(b) = k /\ Open(b)
        /\ \E a \in Range(after.rows) : KeyOf(a) = k /\ Closed(a)}

----------------------------------------------------------------------------
(* Claims about the diff, checked under SpecDiff.                          *)

\* C1: whenever the diff returns, its new list is exactly the current
\* records whose key does not occur in the previous snapshot.
C1_NewIsAbsentKeys ==
    diff_status = "ok" => new_alerts = ExpectedNew(before_state, after_state)

\* C2: for any two snapshots the diff returns an ended list, and it holds
\* exactly the keys that occur in both snapshots, open in the previous and
\* closed in the current.
C2_EndedIsOpenThenClosed ==
    diff_status /= "idle" =>
        /\ diff_status = "ok"
        /\ KeysOf(ended_alerts) = ExpectedEndedKeys(before_state, after_state)

\* C3: every record reported as ended carries the end date and end time the
\* current snapshot holds for its key.
C3_EndedIsCurrentVersion ==
    diff_status = "ok" =>
        \A r \in Range(ended_alerts) :
            \E a \in Range(after_state.rows) :
                /\ KeyOf(a) = KeyOf(r)
                /\ a.EndDate = r.EndDate
                /\ a.EndTime = r.EndTime

\* C4: against an empty previous snapshot the diff returns every current
\* record as new and nothing as ended.
C4_Baseline ==
    (before_state = <<>> /\ diff_status /= "idle") =>
        /\ diff_status = "ok"
        /\ new_alerts = after_state.rows
        /\ ended_alerts = <<>>

C4_Witness ==
    /\ before_state = <<>>
    /\ diff_status = "ok"
    /\ Len(after_state.rows) = 2
    /\ after_state.index = <<1, 2>>
    /\ new_alerts = after_state.rows

\* C5: a snapshot with consistent open/closed state diffed against itself
\* returns an empty new list and an empty ended list.
SameSnapshot ==
    /\ before_state = after_state.rows
    /\ \A r \in Range(before_state) : Consistent(r)
    /\ \A r1, r2 \in Range(before_state) :
           KeyOf(r1) = KeyOf(r2) => (Closed(r1) <=> Closed(r2))

C5_DiffAgainstItself ==
    (SameSnapshot /\ diff_status /= "idle") =>
        /\ diff_status = "ok"
        /\ new_alerts = <<>>
        /\ ended_alerts = <<>>

\* C15: a record is reported as ended only if the current snapshot holds it
\* with both its end date and its end time; a record with exactly one of the
\* two is open and is not reported.
C15_EndedOnlyWithBothEndFields ==
    diff_status = "ok" =>
        \A r \in Range(ended_alerts) :
            \E a \in Range(after_state.rows) : KeyOf(a) = KeyOf(r) /\ Closed(a)

----------------------------------------------------------------------------
(* Claims about CBOEMonitor.check, checked under SpecCheck.                *)

\* the items a check reported as alerted: the matches it handed to the alert
\* manager when that call reported success
Alerted(res) == IF res.alert_sent THEN Range(res.submitted) ELSE {}

\* C6: with the stored state advanced by every successful check, no item
\* alerted by one successful check is alerted again by the next one.
C6_NoDoubleCounting ==
    (check_results.ran /\ ~check_results.error /\
     prior_results.ran /\ ~prior_results.error) =>
        Alerted(check_results) \cap Alerted(prior_results) = {}

----------------------------------------------------------------------------
(* Claims about the batcher and the emission path, checked under SpecBatch. *)

\* how often the key k occurs in the list df
KeyCount(df, k) == Cardinality({i \in DOMAIN df : KeyOf(df[i]) = k})

\* the emissions made for the i-th run of _process_batch
EmissionsOf(i) == {j \in DOMAIN emissions : emissions[j].flush = i}

\* the emission e carries the records of the queued alert a
Carries(e, a) ==
    /\ KeysOf(a.new_breakers) \subseteq KeysOf(e.new_breakers)
    /\ KeysOf(a.ended_breakers) \subseteq KeysOf(e.ended_breakers)

\* the keys of the new, and of the ended, records of a list of queued alerts
NewKeysOf(alerts) == UNION {KeysOf(alerts[i].new_breakers) : i \in DOMAIN alerts}
EndedKeysOf(alerts) == UNION {KeysOf(alerts[i].ended_breakers) : i \in DOMAIN alerts}

\* C7: no queued Change is dropped and none is emitted twice: every Change
\* of a bucket whose timer has fired was handed to send_intelligent_alert
\* in exactly one emission.
C7_QueuedChangeEmittedOnce ==
    \A i \in DOMAIN flushed : \A a \in Range(flushed[i].alerts) :
        Cardinality({j \in EmissionsOf(i) : Carries(emissions[j], a)}) = 1

\* C8: a fired bucket whose Changes hold at least one record makes exactly
\* one call of send_intelligent_alert, with the merged new list and the
\* merged ended list, whatever the mix of its Changes.
C8_FlushSendsMergedOnce ==
    \A i \in DOMAIN flushed :
        (NewKeysOf(flushed[i].alerts) \cup EndedKeysOf(flushed[i].alerts) /= {}) =>
            /\ flushed[i].calls = 1
            /\ \E j \in EmissionsOf(i) :
                   /\ KeysOf(emissions[j].new_breakers) = NewKeysOf(flushed[i].alerts)
                   /\ KeysOf(emissions[j].ended_breakers) = EndedKeysOf(flushed[i].alerts)

\* two Changes of the list share a key in their new, or in their ended, list
SharedNewKey(alerts, k) ==
    \E m, n \in DOMAIN alerts :
        m /= n /\ k \in KeysOf(alerts[m].new_breakers) \cap KeysOf(alerts[n].new_breakers)
SharedEndedKey(alerts, k) ==
    \E m, n \in DOMAIN alerts :
        m /= n /\ k \in KeysOf(alerts[m].ended_breakers) \cap KeysOf(alerts[n].ended_breakers)

\* C9: when several Changes of a fired bucket hold a new record with the
\* same key, the batch passed to emission holds that key exactly once in its
\* new list; likewise for the ended list.
C9_SharedKeyEmittedOnce ==
    \A i \in DOMAIN flushed :
        /\ \A k \in NewKeysOf(flushed[i].alerts) :
               SharedNewKey(flushed[i].alerts, k) =>
                   \E j \in EmissionsOf(i) : KeyCount(emissions[j].new_breakers, k) = 1
        /\ \A k \in EndedKeysOf(flushed[i].alerts) :
               SharedEndedKey(flushed[i].alerts, k) =>
                   \E j \in EmissionsOf(i) : KeyCount(emissions[j].ended_breakers, k) = 1

\* C10: for every flushed batch and every bypassed Change the transport's
\* send is invoked at most once.
C10_SendInvokedAtMostOnce ==
    \A j \in DOMAIN emissions : emissions[j].sends <= 1

\* every alert that was placed into a pending bucket: still pending or flushed
Batched ==
    UNION {Range(pending_alerts[k]) : k \in DOMAIN pending_alerts}
    \cup UNION {Range(flushed[i].alerts) : i \in DOMAIN flushed}

\* the new records of the alert include a configured VIP symbol
HasVipSymbol(a) ==
    \E i \in DOMAIN a.new_breakers : a.new_breakers[i].Symbol \in Range(VIP_SYMBOLS)

\* local time t is after hours: from 20:00 to 08:00
AfterHours(t) == t >= dt_time(20, 0) \/ t < dt_time(8, 0)

\* C11: a Change with a VIP symbol among its new records that is queued
\* after hours is sent inside the queue_alert call: it gets no pending
\* bucket entry and no timer.
C11_VipAfterHoursNotBatched ==
    \A a \in Batched : AfterHours(a.timestamp) => ~HasVipSymbol(a)

\* C12: a Change with a VIP symbol among its new records is never placed
\* into a pending bucket, at any time of day.
C12_VipNeverBatched ==
    \A a \in Batched : ~HasVipSymbol(a)

\* C17: a check sends an alert only if the downloaded data differs from the
\* data stored by the previous successful check, or if no successful check
\* has happened before; so the second of two successful checks on identical
\* data never alerts.
C17_AlertOnlyOnChangedData ==
    [][ ( /\ checkVars' /= checkVars
          /\ check_results'.ran /\ ~check_results'.error
          /\ (check_results'.alert_sent \/ check_results'.submitted /= <<>>) )
        => ( ~previous_df.present \/ previous_df'.rows /= previous_df.rows )
      ]_vars

\* a successful check on the data of the previous successful check, which had
\* alerted: keywords are found again and nothing is sent
C17_Witness ==
    /\ check_results.ran /\ ~check_results.error
    /\ ~check_results.has_changes /\ ~check_results.is_initial
    /\ check_results.keywords_found /= <<>>
    /\ ~check_results.alert_sent /\ check_results.submitted = <<>>
    /\ prior_results.ran /\ ~prior_results.error /\ prior_results.alert_sent

\* C29: the timer started by the first Change of a bucket fires at the end of
\* the bucket's window, bucket start + window length, and not a whole window
\* after that Change was queued.
C29_TimerAtEndOfBucket ==
    \A k \in DOMAIN batch_timers :
        (k \in DOMAIN pending_alerts /\ pending_alerts[k] /= <<>>) =>
            timestamp(batch_timers[k])
                = k + get_batch_window(pending_alerts[k][1].timestamp)

----------------------------------------------------------------------------
(* Claims about the two monitors, checked under SpecMonitors.              *)

\* C13: a check whose download failed reports the failure, sends no alert
\* and leaves the stored previous state as it was (previous_hash and
\* previous_df of CBOEMonitor, last_check_data of SpeedMonitor).
C13_FetchFailureKeepsState ==
    [][ /\ ( /\ <<check_results, prior_results>>' /= <<check_results, prior_results>>
             /\ check_results'.error )
           => /\ previous_hash' = previous_hash
              /\ previous_df' = previous_df
              /\ ~check_results'.alert_sent
              /\ check_results'.submitted = <<>>
              /\ check_results'.delivered = 0
        /\ ( check_count' /= check_count /\ ~speed_result'.fetched )
           => /\ last_check_data' = last_check_data
              /\ ~speed_result'.returned
              /\ speed_result'.alerts_sent = 0
      ]_vars

C13_Witness ==
    /\ check_results.ran /\ check_results.error
    /\ previous_hash /= "" /\ previous_df.present /\ previous_df.rows /= <<>>
    /\ speed_result.ran /\ ~speed_result.fetched
    /\ last_check_data.present /\ last_check_data.rows /= <<>>

\* C14: when a check whose download succeeded returns, the stored previous
\* snapshot is the snapshot of that check, whatever became of the
\* notification.
C14_StoredSnapshotAdvanced ==
    /\ (check_results.ran /\ ~check_results.error) =>
           /\ previous_df.present
           /\ previous_hash = md5(to_string(previous_df.rows))
           /\ find_keyword_matches(previous_df.rows).matches = check_results.keywords_found
    /\ (speed_result.ran /\ speed_result.fetched) =>
           last_check_data = [present |-> TRUE, rows |-> speed_result.current]

----------------------------------------------------------------------------
(* Claims about AlertIntelligenceEngine.analyze_batch, checked under       *)
(* SpecAnalyze.                                                            *)

\* the classification of row r raises inside analyze_alert
ClassificationFails(r, full_df) ==
    analyze_alert_try(r.Symbol, r.TriggerDate, full_df).raised

\* what analyze_batch returns for row r handed over alone
AnalyzedAlone(r, full_df) == analyze_batch(<<r>>, full_df).results[1].analysis

\* C16: if the classification of a new record raises, analyze_batch still
\* returns one result per new record, in order: the failing record gets the
\* defaults (priority STANDARD, no double mint, frequency 1, no related
\* symbols) and every other record gets the result it gets without the
\* failing records.
C16_FailureIsolatedPerRecord ==
    analyze_results.done =>
        LET new_breakers_df == analyze_call.new_breakers_df
            full_df         == analyze_call.full_df
            results         == analyze_results.results
        IN  /\ ~analyze_results.raised
            /\ Len(results) = Len(new_breakers_df)
            /\ \A i \in DOMAIN new_breakers_df :
                  /\ results[i].row_data = new_breakers_df[i]
                  /\ IF ClassificationFails(new_breakers_df[i], full_df)
                     THEN /\ results[i].analysis.priority = "STANDARD"
                          /\ ~results[i].analysis.is_double_mint
                          /\ results[i].analysis.frequency = 1
                          /\ results[i].analysis.related_symbols = <<>>
                     ELSE results[i].analysis = AnalyzedAlone(new_breakers_df[i], full_df)

\* a batch of a NaN symbol and TSLZ with TSLT in full_df on the same day: the
\* first record gets the defaults, the second one is VIP and a double mint
C16_Witness ==
    /\ analyze_results.done
    /\ Len(analyze_results.results) = 2
    /\ ClassificationFails(analyze_call.new_breakers_df[1], analyze_call.full_df)
    /\ ~ClassificationFails(analyze_call.new_breakers_df[2], analyze_call.full_df)
    /\ analyze_results.results[1].analysis.priority = "STANDARD"
    /\ analyze_results.results[2].analysis.priority = "VIP"
    /\ analyze_results.results[2].analysis.is_double_mint

\* rows of data whose symbol is the given one, letter case ignored
MatchingIgnoringCase(symbol, rows) ==
    Len(SelectSeq(rows, LAMBDA r : r.Symbol /= NULL /\ Upper(r.Symbol) = Upper(symbol)))

\* C21: the frequency of a symbol is the number of rows of the dataset whose
\* symbol equals it ignoring letter case, and never less than 1; it is 1 for
\* an empty or missing dataset.
C21_FrequencyIgnoresCase ==
    analyze_results.done =>
        \A i \in DOMAIN analyze_results.results :
            LET r    == analyze_call.new_breakers_df[i]
                rows == analyze_call.full_df.rows
                n    == MatchingIgnoringCase(r.Symbol, rows)
            IN  ~ClassificationFails(r, analyze_call.full_df) =>
                    analyze_results.results[i].analysis.frequency
                        = (IF n > 1 THEN n ELSE 1)

\* the other symbols with a row on the trigger date of r and r's underlying asset
OthersOfSameUnderlying(r, rows) ==
    {rows[j].Symbol : j \in {k \in DOMAIN rows :
        /\ rows[k].TriggerDate = r.TriggerDate
        /\ rows[k].Symbol /= r.Symbol
        /\ extract_underlying_asset(rows[k].Symbol) = extract_underlying_asset(r.Symbol)}}

----------------------------------------------------------------------------
(* Claims about the classifier, checked under SpecClassify.                *)

\* membership in the configured VIP list, both sides upper-cased
InVipSet(symbol) == \E i \in DOMAIN VIP_SYMBOLS : Upper(VIP_SYMBOLS[i]) = Upper(symbol)

\* C18: first match wins: a symbol of the VIP set is VIP whatever the
\* frequency and the double-mint flag; otherwise frequency >= 15 is HIGH;
\* otherwise a double mint with frequency >= 5 is HIGH; otherwise STANDARD.
C18_RuleOrder ==
    classify_result.priority /= "" =>
        LET c == classify_call
        IN  /\ InVipSet(c.symbol) => classify_result.priority = "VIP"
            /\ (~InVipSet(c.symbol) /\ c.frequency >= 15) =>
                   classify_result.priority = "HIGH"
            /\ (~InVipSet(c.symbol) /\ c.frequency < 15
                   /\ c.is_double_mint /\ c.frequency >= 5) =>
                   classify_result.priority = "HIGH"
            /\ (~InVipSet(c.symbol) /\ c.frequency < 15
                   /\ ~(c.is_double_mint /\ c.frequency >= 5)) =>
                   classify_result.priority = "STANDARD"

\* a VIP symbol that also matches both HIGH rules is VIP
C18_Witness ==
    /\ classify_result.priority = "VIP"
    /\ InVipSet(classify_call.symbol)
    /\ classify_call.frequency >= 15
    /\ classify_call.is_double_mint

\* STANDARD < HIGH < VIP
Rank(priority) ==
    CASE priority = "STANDARD" -> 0
      [] priority = "HIGH"     -> 1
      [] priority = "VIP"      -> 2

\* C19: for one symbol and one double-mint flag, the priority at the larger
\* of two frequencies is not lower than the priority at the smaller one.
C19_MonotoneInFrequency ==
    ( /\ classify_result.priority /= ""
      /\ classify_call.frequency <= classify_call.other_frequency )
    => Rank(classify_result.priority) <= Rank(classify_result.other_priority)

\* a double mint off the VIP list: STANDARD below 5, HIGH from 5 on
C19_Witness ==
    /\ classify_result.priority = "STANDARD"
    /\ classify_result.other_priority = "HIGH"
    /\ classify_call.frequency < classify_call.other_frequency
    /\ classify_call.other_frequency < 15
    /\ classify_call.is_double_mint

\* C20: the tier is fixed by thresholds: >= 30 super hot, 20..29 very hot,
\* 15..19 hot, 10..14 active, below 10 standard; frequency 32 is super hot
\* and, for a symbol off the VIP list, of priority HIGH.
C20_TierThresholds ==
    LET f == classify_call.frequency
    IN  /\ classify_result.frequency_tier /= "" =>
              /\ f >= 30 => classify_result.frequency_tier = SUPER_HOT
              /\ f \in 20..29 => classify_result.frequency_tier = VERY_HOT
              /\ f \in 15..19 => classify_result.frequency_tier = HOT
              /\ f \in 10..14 => classify_result.frequency_tier = ACTIVE
              /\ f < 10 => classify_result.frequency_tier = STANDARD_TIER
        /\ ( classify_result.priority /= "" /\ f = 32 /\ ~InVipSet(classify_call.symbol) )
              => classify_result.priority = "HIGH"

\* frequency 32 off the VIP list, classified both ways
C20_Witness ==
    /\ classify_call.frequency = 32
    /\ ~InVipSet(classify_call.symbol)
    /\ ~classify_call.is_double_mint
    /\ classify_result.frequency_tier = SUPER_HOT
    /\ classify_result.priority = "HIGH"

\* the prefixes of lines 48-78
PrefixRules ==
    {"TSL", "NVD", "MST", "ETU", "ETQ", "ETHU", "BTC", "BITX", "ROB", "QBT", "QUB",
     "ARM", "RBL", "PLT", "DJT", "UVI", "SVIX", "CWV", "CRWU", "SMU", "SMUP"}

\* the suffix letters of line 85
SuffixSet == {"P", "U", "T", "Z"}

\* C23: for a symbol that matches no prefix rule, the underlying asset is the
\* symbol without its last character if that character is a direction or
\* leverage suffix, and the symbol itself otherwise.
C23_GenericSuffixRule ==
    LET symbol == classify_call.symbol
    IN  ( /\ classify_result.underlying_asset /= ""
          /\ \A p \in PrefixRules : ~startswith(symbol, p) )
        => classify_result.underlying_asset =
              (IF \E x \in SuffixSet : endswith(symbol, x)
               THEN SubSeq(symbol, 1, Len(symbol) - 1)
               ELSE symbol)

----------------------------------------------------------------------------
(* Claims about the record keys, checked under SpecKey.                    *)

\* two rows are the same record: the same ticker, whatever its casing in the
\* poll that delivered the row, the same trigger date and trigger time
SameRecord(a, b) ==
    /\ Upper(a.Symbol) = Upper(b.Symbol)
    /\ a.TriggerDate = b.TriggerDate
    /\ a.TriggerTime = b.TriggerTime

\* C24: two records get the same key if and only if they agree on symbol,
\* trigger date and trigger time: re-reading a record does not change its
\* key, and a change of one of the three fields changes it.
C24_KeyIffSameRecord ==
    /\ key_result.unique_keys /= <<>> =>
          ( key_result.unique_keys[1] = key_result.unique_keys[2]
              <=> SameRecord(key_call.first, key_call.second) )
    /\ key_result.alert_ids /= <<>> =>
          ( key_result.alert_ids[1] = key_result.alert_ids[2]
              <=> SameRecord(key_call.first, key_call.second) )

----------------------------------------------------------------------------
(* Claims about the threads of the batcher, checked under SpecThreads.     *)

\* no thread is inside queue_alert or _process_batch
Quiescent ==
    /\ \A i \in QueueThreads : queue_threads[i].pc \in {"start", "done"}
    /\ \A t \in DOMAIN timer_threads :
          timer_threads[t].pc \in {"waiting", "returned", "KeyError", "ValueError"}

\* the Timers of bucket k that have been started and have not fired
LiveTimers(k) == {t \in DOMAIN timer_threads : Live(t) /\ timer_threads[t].batch_key = k}

\* the Change of thread i is in the list l
Holds(l, i) == \E j \in DOMAIN l : l[j].full_df = i

\* the Change of thread i waits in a bucket whose Timer will fire
InLiveBucket(i) ==
    \E k \in DOMAIN pending_alerts :
        Holds(list_objects[pending_alerts[k]], i) /\ LiveTimers(k) /= {}

\* the Change of thread i was in a list that _process_batch merged
WasFlushed(i) == \E n \in DOMAIN flushed : Holds(flushed[n].alerts, i)

\* C25: whatever the interleaving of queue_alert and _process_batch on one
\* bucket key, no pending entry is left without a live timer and no queued
\* Change is stranded or lost.
C25_NoStrandedChange ==
    Quiescent =>
        /\ \A k \in DOMAIN pending_alerts :
              list_objects[pending_alerts[k]] /= <<>> => LiveTimers(k) /= {}
        /\ \A i \in QueueThreads :
              queue_threads[i].pc = "done" => InLiveBucket(i) \/ WasFlushed(i)

\* C26: a bucket key has at most one live flush timer, also when several
\* queue_alert calls for the bucket run concurrently.
C26_OneLiveTimerPerKey ==
    \A t \in DOMAIN timer_threads :
        Cardinality(LiveTimers(timer_threads[t].batch_key)) <= 1

\* C27: once _process_batch(k) has run, k is in neither pending_alerts nor
\* batch_timers, whether the emission succeeded or failed, and the Changes
\* of the bucket are handed to no second flush.
C27_BucketRemovedAfterFlush ==
    /\ Quiescent =>
          \A t \in DOMAIN timer_threads :
              LET k == timer_threads[t].batch_key
              IN  (~Live(t) /\ LiveTimers(k) = {}) =>
                      k \notin DOMAIN pending_alerts /\ k \notin DOMAIN batch_timers
    /\ \A i \in QueueThreads :
          Cardinality({n \in DOMAIN flushed : Holds(flushed[n].alerts, i)}) <= 1

\* C28: on the batching path queue_alert sends nothing itself: every
\* emission is made by a Timer thread in _process_batch, after the call that
\* queued the Change.
C28_QueueAlertDoesNotSend ==
    [][ emissions' /= emissions =>
          /\ queue_threads' = queue_threads
          /\ \E t \in DOMAIN timer_threads :
                timer_threads[t].pc = "send" /\ timer_threads'[t].pc = "returned"
      ]_vars

\* a queue_alert call has returned, its Change waits in the bucket under a
\* live timer, and nothing has been sent
C28_Witness ==
    /\ \E i \in QueueThreads : queue_threads[i].pc = "done" /\ InLiveBucket(i)
    /\ emissions = <<>>
    /\ flushed = <<>>

----------------------------------------------------------------------------
(* Claims about get_batch_window, checked under SpecWindow.                *)

\* C30: the batch window is a total function of the Chicago time of day into
\* {15, 30, 45, 90}: 90 from 09:20 to 10:00, the rush hour winning over the
\* market hours; 45 for the rest of 09:30 to 16:00; 30 from 08:00 up to 09:20;
\* 15 at every other time.
C30_WindowByTimeOfDay ==
    window_result /= 0 =>
        LET t == window_call
        IN  /\ window_result \in {15, 30, 45, 90}
            /\ (dt_time(9, 20) <= t /\ t <= dt_time(10, 0)) => window_result = 90
            /\ (dt_time(10, 0) < t /\ t <= dt_time(16, 0)) => window_result = 45
            /\ (dt_time(8, 0) <= t /\ t < dt_time(9, 20)) => window_result = 30
            /\ (t < dt_time(8, 0) \/ t > dt_time(16, 0)) => window_result = 15

\* 09:45 lies in the rush hour and in the market hours: the window is 90
C30_Witness ==
    /\ window_call = dt_time(9, 45)
    /\ window_result = 90

(***************************************************************************)
(* Claims about the determinism of the batcher, checked under SpecBatch.   *)
(***************************************************************************)

\* the bucket keys under which a timer has flushed a list
FlushedKeys == {flushed[i].batch_key : i \in DOMAIN flushed}

\* C31: batching is deterministic: the times of the queue_alert calls and
\* the queued Changes determine the bypass decision, the window, the bucket
\* key and the set of Changes merged into each flush. Two runs with the same
\* calls differ only in the order of a timer and a call of the same instant,
\* so the claim demands that this order never matters: the Changes queued
\* under one bucket key are all merged into the one flush of that key.
C31_FlushDeterminedByCalls ==
    /\ \A i, j \in DOMAIN flushed :
           flushed[i].batch_key = flushed[j].batch_key => i = j
    /\ \A k \in DOMAIN pending_alerts : k \notin FlushedKeys

(***************************************************************************)
(* Further claims about the diff, checked under SpecDiff.                  *)
(***************************************************************************)

\* C32: the diff of any pair of snapshots completes without an error and
\* returns its two lists, also when records of a snapshot share a key.
C32_DiffNeverRaises ==
    diff_status \in {"idle", "ok"}

\* C39: no record key appears in both the new list and the ended list of
\* one diff result.
C39_NewAndEndedDisjoint ==
    diff_status = "ok" => KeysOf(new_alerts) \cap KeysOf(ended_alerts) = {}

(***************************************************************************)
(* Further claims about the batcher, checked under SpecBatch.              *)
(***************************************************************************)

\* the new, and the ended, records of a list of queued alerts in the order
\* of their arrival
ArrivedNew(alerts) == concat([i \in DOMAIN alerts |-> alerts[i].new_breakers])
ArrivedEnded(alerts) == concat([i \in DOMAIN alerts |-> alerts[i].ended_breakers])

\* the position at which the key k arrived first in the list df
FirstArrival(df, k) == CHOOSE p \in DOMAIN df :
    /\ KeyOf(df[p]) = k
    /\ \A q \in DOMAIN df : KeyOf(df[q]) = k => p <= q

\* the list out keeps, of every key of the list df, the record that arrived
\* first, in the order of these first arrivals
KeepsFirstInOrder(out, df) ==
    /\ KeysOf(out) = KeysOf(df)
    /\ \A p \in DOMAIN out : out[p] = df[FirstArrival(df, KeyOf(out[p]))]
    /\ \A p, q \in DOMAIN out :
           p < q => FirstArrival(df, KeyOf(out[p])) < FirstArrival(df, KeyOf(out[q]))

\* C33: when Changes of one bucket hold records with the same key, the
\* flushed batch keeps the record of the Change that was queued first, and
\* keeps the records in the order of their arrival.
C33_FirstQueuedRecordKept ==
    \A i \in DOMAIN flushed :
        (\E k \in NewKeysOf(flushed[i].alerts) \cup EndedKeysOf(flushed[i].alerts) :
             SharedNewKey(flushed[i].alerts, k) \/ SharedEndedKey(flushed[i].alerts, k)) =>
        \E j \in EmissionsOf(i) :
            /\ KeepsFirstInOrder(emissions[j].new_breakers, ArrivedNew(flushed[i].alerts))
            /\ KeepsFirstInOrder(emissions[j].ended_breakers, ArrivedEnded(flushed[i].alerts))

\* C36: ledger entries are written only for a batch whose send the
\* transport reported as successful: every step that adds to the alert
\* ledger is one emission that returned success, and an emission that
\* returned failure leaves the ledger as it was.
C36_LedgerOnlyAfterSuccessfulSend ==
    [][ alert_ledger' /= alert_ledger =>
            /\ Len(emissions') = Len(emissions) + 1
            /\ emissions'[Len(emissions')].success
      ]_vars

C36_Witness ==
    /\ alert_ledger /= <<>>
    /\ \E j, k \in DOMAIN emissions :
           /\ j < k
           /\ emissions[j].success
           /\ ~emissions[k].success
           /\ Len(alert_ledger) =
                  Len(emissions[j].new_breakers) + Len(emissions[j].ended_breakers)

(***************************************************************************)
(* Further claims about CBOEMonitor.check, checked under SpecCheck.        *)
(***************************************************************************)

\* C37: check reports alert_sent = True only when the Discord client
\* delivered a notification during that check; a check during which no
\* message was sent reports alert_sent = False.
C37_AlertSentMeansDelivered ==
    check_results.alert_sent => check_results.delivered > 0

(***************************************************************************)
(* Claims about manual_check_active_positions, checked under SpecCheck.    *)
(***************************************************************************)

\* the alert decision check() would make on the file t with the stored hash h
AlertDecision(h, t) == ShouldAlert(t.hash /= h, h = "", t.m)

\* C38: a manual check never modifies previous_hash or previous_df, so the
\* next automatic check makes, for every file it may download, the alert
\* decision it would have made without the manual check.
C38_ManualCheckKeepsStoredState ==
    [][ manual_checks' /= manual_checks =>
            /\ previous_hash' = previous_hash
            /\ previous_df' = previous_df
            /\ \A t \in CheckTable :
                   AlertDecision(previous_hash', t) = AlertDecision(previous_hash, t)
      ]_vars

\* a manual check that alerted on a file other than the stored one came
\* between two automatic checks, and the second of them, on the stored
\* file, did not alert
C38_Witness ==
    /\ manual_checks > 0
    /\ manual_results.ran /\ manual_results.alert_sent
    /\ prior_results.ran /\ ~prior_results.error
    /\ check_results.ran /\ ~check_results.error
    /\ ~check_results.has_changes
    /\ check_results.keywords_found /= <<>>
    /\ ~check_results.alert_sent

(***************************************************************************)
(* Claims about the change alert text, checked under SpecFormat.           *)
(***************************************************************************)

\* the record a is not later than the record b by the timestamp of the section
NotLater(a, b, status_text) ==
    LET da == RankIn(FormatDates, DateCol(a, status_text))
        db == RankIn(FormatDates, DateCol(b, status_text))
        ta == RankIn(FormatTimes, TimeCol(a, status_text))
        tb == RankIn(FormatTimes, TimeCol(b, status_text))
    IN  da < db \/ (da = db /\ ta <= tb)

\* the section lists the marked (VIP) records before all others, and the
\* others that carry a timestamp in chronological order
SectionOrdered(rows, status_text) ==
    \A p, q \in DOMAIN rows : p < q =>
        /\ is_vip(rows[q]) => is_vip(rows[p])
        /\ ( /\ ~is_vip(rows[p]) /\ ~is_vip(rows[q])
             /\ DateCol(rows[p], status_text) /= NULL
             /\ DateCol(rows[q], status_text) /= NULL )
           => NotLater(rows[p], rows[q], status_text)

\* C34: in the formatted change alert the counts of the title are the
\* numbers of new and of ended records, and each of the two sections lists
\* the VIP records before all others and the others in chronological order
\* of their timestamp.
C34_CountsAndSectionOrder ==
    format_result.done =>
        /\ format_result.title =
               ":zap: CBOE Changes: " \o ToString(Len(format_call.new_breakers_df))
               \o " Started, " \o ToString(Len(format_call.ended_breakers_df)) \o " Ended"
        /\ Len(format_result.started) = Len(format_call.new_breakers_df)
        /\ Len(format_result.ended) = Len(format_call.ended_breakers_df)
        /\ SectionOrdered(format_result.started, "Started")
        /\ SectionOrdered(format_result.ended, "Ended")

(***************************************************************************)
(* Claims about the health monitor called by several threads, checked      *)
(* under FairSpecHealthThreads.                                            *)
(***************************************************************************)

\* no thread waits for the lock while it holds the lock itself
NoSelfWait ==
    \A i \in DOMAIN health_threads :
        health_threads[i].pc \in AcquirePcs => health_lock /= i

\* the entry a thread has written is in the log, or in the ledger, it was
\* written to; the few calls of the threads never reach the size bounds
EntriesPresent ==
    \A i \in DOMAIN health_threads :
        /\ health_threads[i].wrote_log =>
               \E p \in DOMAIN transaction_log : transaction_log[p].by = i
        /\ health_threads[i].wrote_ledger =>
               \E p \in DOMAIN monitor_ledger : monitor_ledger[p].by = i

\* every call has returned or has raised
AllCallsReturned ==
    \A i \in DOMAIN health_threads : health_threads[i].pc \in {"done", "TypeError"}

\* C35: the health monitor is thread-safe: under every interleaving of
\* record_check_attempt, log_transaction, record_alert_sent and
\* get_health_snapshot no thread waits for the lock it holds, every call
\* returns, and the entry each call has written stays in its log or ledger.
C35_ThreadSafe ==
    /\ [](NoSelfWait /\ EntriesPresent)
    /\ <>AllCallsReturned

\* all calls have returned, and a snapshot taken between the ledger entry
\* and the log entry of a concurrent record_alert_sent shows the one and
\* not the other
C35_Witness ==
    /\ AllCallsReturned
    /\ \E i, j \in DOMAIN health_threads :
           /\ health_threads[i].wrote_ledger /\ health_threads[i].wrote_log
           /\ health_threads[j].snapshot.taken
           /\ health_threads[j].snapshot.alerts /= <<>>
           /\ health_threads[j].snapshot.transactions = InitialLog

(***************************************************************************)
(* Claims about the sizes and the order of the log and the ledger,         *)
(* checked under SpecHealth.                                               *)
(***************************************************************************)

\* the entries run from the latest to the earliest: every entry is later
\* than the one behind it
NewestFirst(dq) ==
    \A p \in 1..(Len(dq) - 1) : dq[p].timestamp > dq[p + 1].timestamp

\* dq2 is dq1 after one entry was recorded into a deque of at most n
\* entries: the new entry is the first, the others follow in their order,
\* and a full deque has lost its last, the earliest, entry
RecordedInto(dq1, dq2, n) ==
    /\ dq2 /= <<>>
    /\ Tail(dq2) = (IF Len(dq1) = n THEN SubSeq(dq1, 1, n - 1) ELSE dq1)
    /\ Len(dq1) = n => \A p \in 1..(n - 1) : dq1[n].timestamp < dq1[p].timestamp

\* C40: after any sequence of operations the transaction log holds at most
\* max_log_size entries and the alert ledger at most max_ledger_size;
\* recording into a full log or ledger evicts the oldest entry; and the
\* entries are always ordered newest first.
C40_BoundedNewestFirst ==
    /\ [] ( /\ Len(transaction_log) <= max_log_size
            /\ Len(monitor_ledger) <= max_ledger_size
            /\ NewestFirst(transaction_log)
            /\ NewestFirst(monitor_ledger) )
    /\ [][ /\ transaction_log' /= transaction_log =>
                  RecordedInto(transaction_log, transaction_log', max_log_size)
           /\ monitor_ledger' /= monitor_ledger =>
                  RecordedInto(monitor_ledger, monitor_ledger', max_ledger_size)
         ]_vars

\* the log is full and has lost the entry of the constructor; the ledger
\* was loaded full and has lost its earliest entry to a recorded alert
C40_Witness ==
    /\ Len(transaction_log) = max_log_size
    /\ transaction_log[max_log_size].timestamp > 0
    /\ Len(monitor_ledger) = max_ledger_size
    /\ monitor_ledger[1].timestamp > 0
    /\ monitor_ledger[max_ledger_size].timestamp = 1 - max_ledger_size

====
